---------------------------- MODULE Spec2Model ----------------------------
(***************************************************************************)
(* Model of the metrics pipeline of video-downscale-tool                   *)
(* (src/metricas-videos/app/servicios/metricas_service.py and the DTOs of  *)
(* src/metricas-videos/app/dominio/dtos.py).                               *)
(*                                                                         *)
(* Representation of Python values:                                        *)
(*   None            the empty tuple <<>>                                  *)
(*   Optional[int]   None or the one-element tuple <<i>>                   *)
(*   float           an exact rational <<n, d>>, d > 0, in lowest terms    *)
(*   Optional[list]  None or a sequence (a list is never left empty by the *)
(*                   code, so None and [] need no separate encoding)       *)
(***************************************************************************)
EXTENDS Integers, Sequences, FiniteSets, TLC

(***************************************************************************)
(* Bounds of the model.                                                    *)
(***************************************************************************)
MaxVideos == 5

MaxVideosBitrate == 3

MaxVideosChicos == 3

MaxLlamadas == 2

MaxVideosAlturas == 1

MaxRutas == 1

MaxVideosPipeline == 4

(***************************************************************************)
(* Python values.                                                          *)
(***************************************************************************)
None == <<>>

Some(i) == <<i>>

Truthy(x) == x /= None /\ x[1] /= 0

Range(s) == {s[i] : i \in DOMAIN s}

Abs(n) == IF n < 0 THEN -n ELSE n

RECURSIVE GCD(_, _)
GCD(a, b) == IF b = 0 THEN a ELSE IF b = 1 THEN 1 ELSE GCD(b, a % b)

Rat(n, d) ==
    LET g == GCD(Abs(n), d)
    IN  <<n \div g, d \div g>>

RatInt(i) == <<i, 1>>

\* a <= b: decided by the signs or the numerators where they suffice, and
\* otherwise by cross-multiplication after cancelling the common factors.
RatLe(a, b) ==
    IF a[2] = b[2] THEN a[1] <= b[1]
    ELSE IF a[1] <= 0 /\ b[1] >= 0 THEN TRUE
    ELSE IF a[1] >= 0 /\ b[1] <= 0 THEN FALSE
    ELSE LET g == GCD(a[2], b[2])
             h == GCD(Abs(a[1]), Abs(b[1]))
             k == IF h = 0 THEN 1 ELSE h
         IN  (a[1] \div k) * (b[2] \div g) <= (b[1] \div k) * (a[2] \div g)

RatLt(a, b) == ~RatLe(b, a)

RatAdd(a, b) ==
    LET g == GCD(a[2], b[2])
    IN  Rat(a[1] * (b[2] \div g) + b[1] * (a[2] \div g), (a[2] \div g) * b[2])

RatNeg(a) == <<-a[1], a[2]>>

RatSub(a, b) == RatAdd(a, RatNeg(b))

RatAbs(a) == <<Abs(a[1]), a[2]>>

RatMul(a, b) ==
    LET g1 == GCD(Abs(a[1]), b[2])
        g2 == GCD(Abs(b[1]), a[2])
    IN  <<(a[1] \div g1) * (b[1] \div g2), (a[2] \div g2) * (b[2] \div g1)>>

RatInv(a) == IF a[1] < 0 THEN <<-a[2], -a[1]>> ELSE <<a[2], a[1]>>

RatDiv(a, b) == RatMul(a, RatInv(b))

RECURSIVE RatSum(_)
RatSum(s) == IF s = <<>> THEN RatInt(0) ELSE RatAdd(s[1], RatSum(Tail(s)))

RECURSIVE IntSum(_)
IntSum(s) == IF s = <<>> THEN 0 ELSE s[1] + IntSum(Tail(s))

\* int(x) for x >= 0: truncation of the quotient.
IntTrunc(a) == a[1] \div a[2]

\* round(x) of Python 3: nearest integer, ties to the even neighbour.
round(a) ==
    LET f == a[1] \div a[2]
        r == 2 * (a[1] - f * a[2])
    IN  IF r < a[2] THEN f
        ELSE IF r > a[2] THEN f + 1
        ELSE IF f % 2 = 0 THEN f ELSE f + 1

(***************************************************************************)
(* Module constants of metricas_service.py.                                *)
(***************************************************************************)
_BYTES_POR_MB == 1024 * 1024

_SEGUNDOS_POR_MINUTO == 60

_BITS_POR_BYTE == 8

_MAD_FACTOR == Rat(14826, 10000)

_MIN_BUCKET_CONFIABLE == 5

(***************************************************************************)
(* calcular_bitrate_total_estimado: the fallback chain container ->        *)
(* components -> size estimate -> none.  The result is the pair            *)
(* <<Optional[int], fuente>>.                                              *)
(***************************************************************************)
RECURSIVE ComponentesAudio_no_nulos(_)
ComponentesAudio_no_nulos(streams) ==
    IF streams = <<>> THEN <<>>
    ELSE (IF streams[1].bitrate_bps /= None
             THEN <<streams[1].bitrate_bps[1]>> ELSE <<>>)
         \o ComponentesAudio_no_nulos(Tail(streams))

\* The audio part of componentes (lines 95-98).
RECURSIVE ComponentesAudio(_)
ComponentesAudio(streams) ==
    IF streams = <<>> THEN <<>>
    ELSE (IF Truthy(streams[1].bitrate_bps) /\ streams[1].bitrate_bps[1] > 0
             THEN <<streams[1].bitrate_bps[1]>> ELSE <<>>)
         \o ComponentesAudio(Tail(streams))

calcular_bitrate_total_estimado(bitrate_container_bps, bitrate_video_bps, streams_audio, size_bytes, duracion_seg) ==
    IF Truthy(bitrate_container_bps) /\ bitrate_container_bps[1] > 0
    THEN <<bitrate_container_bps, "format">>
    ELSE
      LET componentes ==
              (IF Truthy(bitrate_video_bps) /\ bitrate_video_bps[1] > 0
                  THEN <<bitrate_video_bps[1]>> ELSE <<>>)
              \o (IF streams_audio /= None
                     THEN ComponentesAudio(streams_audio) ELSE <<>>)
      IN  IF componentes /= <<>>
          THEN <<Some(IntSum(componentes)), "componentes">>
          ELSE IF size_bytes > 0 /\ Truthy(duracion_seg)
                  /\ RatLt(RatInt(0), duracion_seg)
               THEN <<Some(IntTrunc(RatDiv(RatInt(size_bytes * _BITS_POR_BYTE),
                                           duracion_seg))), "tamano">>
               ELSE <<None, "none">>

(***************************************************************************)
(* DTOs (dominio/dtos.py).  A video is built as the tests' _build_video    *)
(* and ejecutar_pipeline build it: raw probe fields set, derived fields    *)
(* at their dataclass defaults.                                            *)
(***************************************************************************)
AudioStreamDTO(bitrate_bps) == [bitrate_bps |-> bitrate_bps]

VideoArchivoDTO(ruta, size_bytes) == [ruta |-> ruta, size_bytes |-> size_bytes]

VideoStreamDTO(duracion_seg, codec, bitrate_bps, bitrate_container_bps, width, height, fps, es_hdr, es_vfr) ==
    [duracion_seg |-> duracion_seg, codec |-> codec,
     bitrate_bps |-> bitrate_bps,
     bitrate_container_bps |-> bitrate_container_bps,
     width |-> width, height |-> height, fps |-> fps,
     es_hdr |-> es_hdr, es_vfr |-> es_vfr]

VideoAnaliticaDTO(archivo, stream_video, streams_audio) ==
    [archivo |-> archivo, stream_video |-> stream_video,
     streams_audio |-> streams_audio,
     mb_por_minuto |-> None, bitrate_total_estimado |-> None,
     bits_por_pixel_frame |-> None, flags_contexto |-> None,
     kbps_total |-> None, kbps_video |-> None, audio_share_pct |-> None,
     duracion_categoria |-> None, bucket_resolucion_fps |-> None,
     ratio_vs_promedio_bucket |-> None]

BucketResumenDTO(bucket_id, promedio_mb_min, promedio_bitrate, total_videos, desviacion_std_mb_min, mediana_mb_min, mad_mb_min) ==
    [bucket_id |-> bucket_id, promedio_mb_min |-> promedio_mb_min,
     promedio_bitrate |-> promedio_bitrate, videos_outliers |-> <<>>,
     total_videos |-> total_videos,
     desviacion_std_mb_min |-> desviacion_std_mb_min,
     mediana_mb_min |-> mediana_mb_min, mad_mb_min |-> mad_mb_min]

\* str(Path): the parts joined by the separator.
str(ruta) == ruta[1] \o "/" \o ruta[2]

(***************************************************************************)
(* Per-video derived metrics.                                              *)
(***************************************************************************)
calcular_mb_por_minuto_por_segundo(size_bytes, duracion_seg) ==
    IF size_bytes <= 0 THEN None
    ELSE IF duracion_seg = None \/ RatLe(duracion_seg, RatInt(0)) THEN None
    ELSE RatDiv(Rat(size_bytes, _BYTES_POR_MB), duracion_seg)

calcular_mb_por_minuto(size_bytes, duracion_seg) ==
    IF size_bytes <= 0 THEN None
    ELSE IF duracion_seg = None \/ RatLe(duracion_seg, RatInt(0)) THEN None
    ELSE LET minutos == RatDiv(duracion_seg, RatInt(_SEGUNDOS_POR_MINUTO))
             megabytes == Rat(size_bytes, _BYTES_POR_MB)
         IN  IF RatLe(minutos, RatInt(0)) THEN None
             ELSE RatDiv(megabytes, minutos)

_agregar_flag_sin_revisar(flags_contexto, flag) ==
    IF flags_contexto = None THEN <<flag>> ELSE Append(flags_contexto, flag)

_agregar_flag(flags_contexto, flag) ==
    IF flags_contexto = None THEN <<flag>>
    ELSE IF flag \notin Range(flags_contexto)
         THEN Append(flags_contexto, flag)
         ELSE flags_contexto

_calcular_duracion_categoria(duracion_seg) ==
    IF RatLt(duracion_seg, RatInt(10)) THEN "MUY CORTO"
    ELSE IF RatLe(duracion_seg, RatInt(120)) THEN "CORTO"
    ELSE IF RatLe(duracion_seg, RatInt(300)) THEN "MEDIO"
    ELSE "LARGO"

_aplicar_contexto_duracion_sin_guarda(video) ==
    LET duracion == video.stream_video.duracion_seg
        v1 == [video EXCEPT !.duracion_categoria =
                                 Some(_calcular_duracion_categoria(duracion))]
    IN  IF RatLt(duracion, RatInt(10))
             THEN [v1 EXCEPT !.flags_contexto = _agregar_flag(@, "MUY_CORTO")]
        ELSE IF RatLt(duracion, RatInt(30))
             THEN [v1 EXCEPT !.flags_contexto =
                                 _agregar_flag(@, "DURACION_CORTA")]
        ELSE v1

_aplicar_contexto_duracion(video) ==
    LET duracion == video.stream_video.duracion_seg
        v1 == [video EXCEPT !.duracion_categoria =
                                 Some(_calcular_duracion_categoria(duracion))]
    IN  IF RatLe(duracion, RatInt(0)) THEN v1
        ELSE IF RatLt(duracion, RatInt(10))
             THEN [v1 EXCEPT !.flags_contexto = _agregar_flag(@, "MUY_CORTO")]
        ELSE IF RatLt(duracion, RatInt(30))
             THEN [v1 EXCEPT !.flags_contexto =
                                 _agregar_flag(@, "DURACION_CORTA")]
        ELSE v1

_actualizar_flags_bitrate_rellena(video, fuente) ==
    LET v0 == IF fuente \in {"componentes", "tamano"}
                 THEN [video EXCEPT !.stream_video.bitrate_container_bps =
                                        video.bitrate_total_estimado]
                 ELSE video
        v1 == IF fuente \in {"componentes", "tamano", "none"}
                 THEN [v0 EXCEPT !.flags_contexto =
                          _agregar_flag(@, "BITRATE_CONTAINER_FALTANTE")]
                 ELSE v0
    IN  IF fuente = "tamano"
        THEN [v1 EXCEPT !.flags_contexto =
                            _agregar_flag(@, "ESTIMACION_BITRATE")]
        ELSE v1

_actualizar_flags_bitrate(video, fuente) ==
    LET v1 == IF fuente \in {"componentes", "tamano", "none"}
                 THEN [video EXCEPT !.flags_contexto =
                          _agregar_flag(@, "BITRATE_CONTAINER_FALTANTE")]
                 ELSE video
    IN  IF fuente = "tamano"
        THEN [v1 EXCEPT !.flags_contexto =
                            _agregar_flag(@, "ESTIMACION_BITRATE")]
        ELSE v1

_calcular_bits_por_pixel_frame(bitrate_video_bps, width, height, fps) ==
    IF ~Truthy(bitrate_video_bps) \/ bitrate_video_bps[1] <= 0 THEN None
    ELSE IF width <= 0 \/ height <= 0 \/ RatLe(fps, RatInt(0)) THEN None
    ELSE LET denominador == RatMul(RatInt(width * height), fps)
         IN  IF RatLe(denominador, RatInt(0)) THEN None
             ELSE Rat(round(RatMul(RatDiv(RatInt(bitrate_video_bps[1]),
                                          denominador),
                                   RatInt(100000))), 100000)

_calcular_kbps(valor_bps) ==
    IF ~Truthy(valor_bps) \/ valor_bps[1] <= 0 THEN None
    ELSE Some(round(Rat(valor_bps[1], 1000)))

_calcular_audio_share_pct(streams_audio, bitrate_total) ==
    IF ~Truthy(bitrate_total) \/ bitrate_total[1] <= 0
       \/ streams_audio = None \/ streams_audio = <<>>
    THEN None
    ELSE LET aporte_audio == IntSum(ComponentesAudio(streams_audio))
         IN  IF aporte_audio <= 0 THEN None
             ELSE RatMul(RatInt(100), Rat(aporte_audio, bitrate_total[1]))

_RESOLUCIONES_NORMALIZADAS == <<144, 240, 360, 480, 720, 1080, 1440, 2160, 4320>>

_FPS_NORMALIZADOS == <<24, 25, 30, 50, 60>>

\* min(objetivos, key=lambda objetivo: abs(objetivo - x)): the first
\* element of the tuple whose key is minimal.
RECURSIVE MinPorDistancia_ultimo(_, _, _)
MinPorDistancia_ultimo(objetivos, x, mejor) ==
    IF objetivos = <<>> THEN mejor
    ELSE MinPorDistancia_ultimo(
             Tail(objetivos), x,
             IF RatLe(RatAbs(RatSub(RatInt(objetivos[1]), x)),
                      RatAbs(RatSub(RatInt(mejor), x)))
                THEN objetivos[1] ELSE mejor)

RECURSIVE MinPorDistancia(_, _, _)
MinPorDistancia(objetivos, x, mejor) ==
    IF objetivos = <<>> THEN mejor
    ELSE MinPorDistancia(
             Tail(objetivos), x,
             IF RatLt(RatAbs(RatSub(RatInt(objetivos[1]), x)),
                      RatAbs(RatSub(RatInt(mejor), x)))
                THEN objetivos[1] ELSE mejor)

_normalizar_altura(height) ==
    IF height <= 0 THEN None
    ELSE Some(MinPorDistancia(Tail(_RESOLUCIONES_NORMALIZADAS), RatInt(height),
                              _RESOLUCIONES_NORMALIZADAS[1]))

_normalizar_fps(fps) ==
    IF fps[1] = 0 \/ RatLe(fps, RatInt(0)) THEN None
    ELSE Some(MinPorDistancia(Tail(_FPS_NORMALIZADOS), fps,
                              _FPS_NORMALIZADOS[1]))

\* str.upper() on the codec names the model uses.
upper(codec) ==
    CASE codec = "h264" -> "H264"
      [] codec = "hevc" -> "HEVC"
      [] codec = "UNKNOWN" -> "UNKNOWN"
      [] OTHER -> codec

_resolver_bucket_resolucion_sin_upper(video) ==
    LET altura == _normalizar_altura(video.stream_video.height)
        fps == _normalizar_fps(video.stream_video.fps)
    IN  IF altura = None \/ fps = None THEN None
        ELSE LET codec == IF video.stream_video.codec = None
                             \/ video.stream_video.codec[1] = ""
                          THEN "UNKNOWN"
                          ELSE video.stream_video.codec[1]
                 bucket == ToString(altura[1]) \o "p@" \o ToString(fps[1])
                 bucket2 == IF video.stream_video.es_hdr
                            THEN bucket \o "/HDR" ELSE bucket
             IN  Some(bucket2 \o "/" \o codec)

_resolver_bucket_resolucion(video) ==
    LET altura == _normalizar_altura(video.stream_video.height)
        fps == _normalizar_fps(video.stream_video.fps)
    IN  IF altura = None \/ fps = None THEN None
        ELSE LET codec == upper(IF video.stream_video.codec = None
                                   \/ video.stream_video.codec[1] = ""
                                THEN "UNKNOWN"
                                ELSE video.stream_video.codec[1])
                 bucket == ToString(altura[1]) \o "p@" \o ToString(fps[1])
                 bucket2 == IF video.stream_video.es_hdr
                            THEN bucket \o "/HDR" ELSE bucket
             IN  Some(bucket2 \o "/" \o codec)

\* The exception _aplicar_contexto_duracion lets propagate, None when it
\* returns: with duracion None the comparison None < 10 of line 123 (reached
\* from line 113) raises TypeError before anything is assigned.
Excepcion_aplicar_contexto_duracion(video) ==
    IF video.stream_video.duracion_seg = None THEN Some("TypeError") ELSE None

MetricasDerivadasVideo_kbps_previo(video) ==
    LET v1 == [video EXCEPT !.mb_por_minuto =
                   calcular_mb_por_minuto(video.archivo.size_bytes,
                                          video.stream_video.duracion_seg)]
        excepcion_duracion == Excepcion_aplicar_contexto_duracion(v1)
        v2 == _aplicar_contexto_duracion(v1)
        estimado == calcular_bitrate_total_estimado(
                        video.stream_video.bitrate_container_bps,
                        video.stream_video.bitrate_bps,
                        video.streams_audio,
                        video.archivo.size_bytes,
                        video.stream_video.duracion_seg)
        v3 == _actualizar_flags_bitrate(
                  [v2 EXCEPT !.bitrate_total_estimado = estimado[1]],
                  estimado[2])
        v4 == IF video.stream_video.es_vfr
              THEN [v3 EXCEPT !.flags_contexto = _agregar_flag(@, "VFR")]
              ELSE v3
        v5 == IF video.stream_video.es_hdr
              THEN [v4 EXCEPT !.flags_contexto = _agregar_flag(@, "HDR")]
              ELSE v4
    IN  IF excepcion_duracion /= None THEN <<v1, excepcion_duracion>>
        ELSE
          <<[v5 EXCEPT
              !.bits_por_pixel_frame =
                  _calcular_bits_por_pixel_frame(video.stream_video.bitrate_bps,
                                                 video.stream_video.width,
                                                 video.stream_video.height,
                                                 video.stream_video.fps),
              !.kbps_total = _calcular_kbps(video.bitrate_total_estimado),
              !.kbps_video = _calcular_kbps(video.stream_video.bitrate_bps),
              !.audio_share_pct =
                  _calcular_audio_share_pct(video.streams_audio,
                                            v5.bitrate_total_estimado),
              !.bucket_resolucion_fps = _resolver_bucket_resolucion(v5)],
            None>>

\* Body of the loop of calcular_metricas_derivadas for one video: the pair
\* of the video as the iteration leaves it and the exception that ends the
\* iteration, None when it completes.
MetricasDerivadasVideo(video) ==
    LET v1 == [video EXCEPT !.mb_por_minuto =
                   calcular_mb_por_minuto(video.archivo.size_bytes,
                                          video.stream_video.duracion_seg)]
        excepcion_duracion == Excepcion_aplicar_contexto_duracion(v1)
        v2 == _aplicar_contexto_duracion(v1)
        estimado == calcular_bitrate_total_estimado(
                        video.stream_video.bitrate_container_bps,
                        video.stream_video.bitrate_bps,
                        video.streams_audio,
                        video.archivo.size_bytes,
                        video.stream_video.duracion_seg)
        v3 == _actualizar_flags_bitrate(
                  [v2 EXCEPT !.bitrate_total_estimado = estimado[1]],
                  estimado[2])
        v4 == IF video.stream_video.es_vfr
              THEN [v3 EXCEPT !.flags_contexto = _agregar_flag(@, "VFR")]
              ELSE v3
        v5 == IF video.stream_video.es_hdr
              THEN [v4 EXCEPT !.flags_contexto = _agregar_flag(@, "HDR")]
              ELSE v4
    IN  IF excepcion_duracion /= None THEN <<v1, excepcion_duracion>>
        ELSE
          <<[v5 EXCEPT
              !.bits_por_pixel_frame =
                  _calcular_bits_por_pixel_frame(video.stream_video.bitrate_bps,
                                                 video.stream_video.width,
                                                 video.stream_video.height,
                                                 video.stream_video.fps),
              !.kbps_total = _calcular_kbps(v5.bitrate_total_estimado),
              !.kbps_video = _calcular_kbps(video.stream_video.bitrate_bps),
              !.audio_share_pct =
                  _calcular_audio_share_pct(video.streams_audio,
                                            v5.bitrate_total_estimado),
              !.bucket_resolucion_fps = _resolver_bucket_resolucion(v5)],
            None>>

\* for video in videos: the loop stops at the first iteration that raises.
RECURSIVE DerivadasLoop(_, _)
DerivadasLoop(vs, i) ==
    IF i > Len(vs) THEN <<vs, None>>
    ELSE LET paso == MetricasDerivadasVideo(vs[i])
         IN  IF paso[2] /= None THEN <<[vs EXCEPT ![i] = paso[1]], paso[2]>>
             ELSE DerivadasLoop([vs EXCEPT ![i] = paso[1]], i + 1)

\* The pair of the videos as the call leaves them (they are mutated in
\* place) and the exception that propagates out of it, None when it returns.
calcular_metricas_derivadas(vs) == DerivadasLoop(vs, 1)

(***************************************************************************)
(* Bucket statistics.                                                      *)
(***************************************************************************)
_promedio(valores) ==
    IF valores = <<>> THEN None
    ELSE RatDiv(RatSum(valores), RatInt(Len(valores)))

\* math.sqrt(x), kept exact: the non-negative root of the rational x.
sqrt(x) == [raiz_de |-> x]

_desviacion_std_muestral(valores) ==
    IF Len(valores) < 2 THEN None
    ELSE LET promedio == _promedio(valores)
         IN  IF promedio = None THEN None
             ELSE LET cuadrados ==
                          [i \in DOMAIN valores |->
                              RatMul(RatSub(valores[i], promedio),
                                     RatSub(valores[i], promedio))]
                      varianza == RatDiv(RatSum(cuadrados),
                                         RatInt(Len(valores) - 1))
                  IN  sqrt(varianza)

_desviacion_std(valores) ==
    IF Len(valores) < 2 THEN None
    ELSE LET promedio == _promedio(valores)
         IN  IF promedio = None THEN None
             ELSE LET cuadrados ==
                          [i \in DOMAIN valores |->
                              RatMul(RatSub(valores[i], promedio),
                                     RatSub(valores[i], promedio))]
                      varianza == RatDiv(RatSum(cuadrados),
                                         RatInt(Len(valores)))
                  IN  sqrt(varianza)

\* sorted(valores)
RECURSIVE Insertar(_, _)
Insertar(x, s) ==
    IF s = <<>> THEN <<x>>
    ELSE IF RatLt(x, s[1]) THEN <<x>> \o s
    ELSE <<s[1]>> \o Insertar(x, Tail(s))

RECURSIVE sorted(_)
sorted(s) ==
    IF s = <<>> THEN <<>>
    ELSE Insertar(s[Len(s)], sorted(SubSeq(s, 1, Len(s) - 1)))

_mediana_sin_promediar(valores) ==
    IF valores = <<>> THEN None
    ELSE LET ordenados == sorted(valores)
             mitad == Len(ordenados) \div 2
         IN  ordenados[mitad + 1]

_mediana(valores) ==
    IF valores = <<>> THEN None
    ELSE LET ordenados == sorted(valores)
             mitad == Len(ordenados) \div 2
         IN  IF Len(ordenados) % 2 = 1 THEN ordenados[mitad + 1]
             ELSE RatDiv(RatAdd(ordenados[mitad], ordenados[mitad + 1]),
                         RatInt(2))

_mad(valores, mediana) ==
    IF valores = <<>> \/ mediana = None THEN None
    ELSE LET desviaciones ==
                 [i \in DOMAIN valores |-> RatAbs(RatSub(valores[i], mediana))]
         IN  _mediana(desviaciones)

\* [f(video) for video in videos if cond(video)] for the two comprehensions
\* of calcular_metricas_bucket.
RECURSIVE ValoresMb(_)
ValoresMb(vs) ==
    IF vs = <<>> THEN <<>>
    ELSE (IF vs[1].mb_por_minuto /= None
             THEN <<vs[1].mb_por_minuto>> ELSE <<>>)
         \o ValoresMb(Tail(vs))

RECURSIVE ValoresBitrate(_)
ValoresBitrate(vs) ==
    IF vs = <<>> THEN <<>>
    ELSE (IF Truthy(vs[1].bitrate_total_estimado)
             THEN <<RatInt(vs[1].bitrate_total_estimado[1])>> ELSE <<>>)
         \o ValoresBitrate(Tail(vs))

calcular_metricas_bucket(bucket_id, vs) ==
    LET valores_mb == ValoresMb(vs)
        promedio_mb == _promedio(valores_mb)
        desviacion_std == _desviacion_std(valores_mb)
        mediana == _mediana(valores_mb)
        mad == _mad(valores_mb, mediana)
        valores_bitrate == ValoresBitrate(vs)
        promedio_bitrate == _promedio(valores_bitrate)
    IN  BucketResumenDTO(bucket_id, promedio_mb,
                         IF promedio_bitrate /= None
                            THEN Some(round(promedio_bitrate)) ELSE None,
                         Len(vs), desviacion_std, mediana, mad)

(***************************************************************************)
(* Outlier detection.  umbrales is a dict whose keys may be absent: a      *)
(* function on a subset of the keys.                                       *)
(***************************************************************************)
get(dict, key, default) == IF key \in DOMAIN dict THEN dict[key] ELSE default

\* denominador (line 298)
Denominador_sin_guarda(mad) ==
    IF Truthy(mad) /\ RatLt(RatInt(0), mad)
    THEN RatMul(_MAD_FACTOR, mad) ELSE _MAD_FACTOR

Denominador(mad) ==
    IF Truthy(mad) /\ RatLt(RatInt(0), mad)
    THEN RatMul(_MAD_FACTOR, mad) ELSE None

\* bucket_pequeno (line 299)
BucketPequeno_inclusivo(total_videos, min_bucket) == total_videos <= min_bucket

BucketPequeno(total_videos, min_bucket) == total_videos < min_bucket

\* The ratio assigned at lines 306-310.
Ratio_invertido(valor, mediana) ==
    IF valor = None \/ mediana = None \/ RatLe(mediana, RatInt(0)) THEN None
    ELSE RatDiv(mediana, valor)

Ratio(valor, mediana) ==
    IF valor = None \/ mediana = None \/ RatLe(mediana, RatInt(0)) THEN None
    ELSE RatDiv(valor, mediana)

\* The flag chosen by the if/elif of lines 316-321, None when neither
\* branch is taken.
FlagOutlier_estricto(abs_z, umbral_suave, umbral_fuerte) ==
    IF RatLt(umbral_fuerte, abs_z) THEN Some("OUTLIER_FUERTE")
    ELSE IF RatLt(umbral_suave, abs_z) THEN Some("OUTLIER_SUAVE")
    ELSE None

FlagOutlier(abs_z, umbral_suave, umbral_fuerte) ==
    IF RatLe(umbral_fuerte, abs_z) THEN Some("OUTLIER_FUERTE")
    ELSE IF RatLe(umbral_suave, abs_z) THEN Some("OUTLIER_SUAVE")
    ELSE None

\* bucket_resumen.videos_outliers.append(str(video.archivo.ruta))
AgregarOutlier_al_frente(videos_outliers, ruta) == <<str(ruta)>> \o videos_outliers

AgregarOutlier_sin_repetir(videos_outliers, ruta) ==
    IF str(ruta) \in Range(videos_outliers) THEN videos_outliers
    ELSE Append(videos_outliers, str(ruta))

AgregarOutlier(videos_outliers, ruta) == Append(videos_outliers, str(ruta))

\* One iteration of the loop of marcar_outliers: the pair of the video and
\* the summary's outlier list as the iteration leaves them.
MarcarVideo(video, videos_outliers, mediana, denominador, bucket_pequeno, umbral_suave, umbral_fuerte) ==
    LET v1 == IF bucket_pequeno
              THEN [video EXCEPT !.flags_contexto =
                                     _agregar_flag(@, "BUCKET_PEQUENO")]
              ELSE video
        valor == video.mb_por_minuto
        v2 == [v1 EXCEPT !.ratio_vs_promedio_bucket = Ratio(valor, mediana)]
    IN  IF valor = None \/ mediana = None \/ RatLe(mediana, RatInt(0))
        THEN <<v2, videos_outliers>>
        ELSE IF denominador = None THEN <<v2, videos_outliers>>
        ELSE
          LET z_score == RatDiv(RatSub(valor, mediana), denominador)
              abs_z == RatAbs(z_score)
              flag == FlagOutlier(abs_z, umbral_suave, umbral_fuerte)
          IN  IF flag = None THEN <<v2, videos_outliers>>
              ELSE <<[v2 EXCEPT !.flags_contexto = _agregar_flag(@, flag[1])],
                     AgregarOutlier(videos_outliers, video.archivo.ruta)>>

RECURSIVE MarcarLoop(_, _, _, _, _, _, _, _)
MarcarLoop(vs, i, videos_outliers, mediana, denominador, bucket_pequeno, umbral_suave, umbral_fuerte) ==
    IF i > Len(vs) THEN <<vs, videos_outliers>>
    ELSE LET paso == MarcarVideo(vs[i], videos_outliers, mediana, denominador,
                                 bucket_pequeno, umbral_suave, umbral_fuerte)
         IN  MarcarLoop([vs EXCEPT ![i] = paso[1]], i + 1, paso[2], mediana,
                        denominador, bucket_pequeno, umbral_suave,
                        umbral_fuerte)

marcar_outliers_recuenta(vs, bucket_resumen, umbrales) ==
    LET fin == MarcarLoop(vs, 1, bucket_resumen.videos_outliers,
                          bucket_resumen.mediana_mb_min,
                          Denominador(bucket_resumen.mad_mb_min),
                          BucketPequeno(bucket_resumen.total_videos,
                                        get(umbrales, "min_bucket",
                                            _MIN_BUCKET_CONFIABLE)),
                          get(get(umbrales, "mb_por_minuto", <<>>),
                              "outlier_suave", RatInt(2)),
                          get(get(umbrales, "mb_por_minuto", <<>>),
                              "outlier_fuerte", RatInt(3)))
    IN  <<fin[1], [bucket_resumen EXCEPT !.videos_outliers = fin[2],
                                         !.total_videos = Len(vs)]>>

\* The result is the pair of the videos and the summary as the call leaves
\* them (both are mutated in place by the code).
marcar_outliers(vs, bucket_resumen, umbrales) ==
    IF vs = <<>> THEN <<vs, bucket_resumen>>
    ELSE
      LET umbrales_mb == get(umbrales, "mb_por_minuto", <<>>)
          umbral_suave == get(umbrales_mb, "outlier_suave", RatInt(2))
          umbral_fuerte == get(umbrales_mb, "outlier_fuerte", RatInt(3))
          min_bucket == get(umbrales, "min_bucket", _MIN_BUCKET_CONFIABLE)
          mediana == bucket_resumen.mediana_mb_min
          mad == bucket_resumen.mad_mb_min
          denominador == Denominador(mad)
          bucket_pequeno == BucketPequeno(bucket_resumen.total_videos,
                                          min_bucket)
          fin == MarcarLoop(vs, 1, bucket_resumen.videos_outliers, mediana,
                            denominador, bucket_pequeno, umbral_suave,
                            umbral_fuerte)
      IN  <<fin[1], [bucket_resumen EXCEPT !.videos_outliers = fin[2]]>>

(***************************************************************************)
(* Grouping.  buckets is the dict of agrupar_en_buckets in insertion       *)
(* order: a sequence of [bucket_id, videos], videos being the positions in *)
(* the video list of the DTOs the bucket's list refers to.                 *)
(***************************************************************************)
_BUCKET_DESCONOCIDO == "SIN_CLASIFICACION"

setdefault_append_al_frente(bs, bucket_id, i) ==
    IF \E k \in DOMAIN bs : bs[k].bucket_id = bucket_id
    THEN [k \in DOMAIN bs |->
             IF bs[k].bucket_id = bucket_id
             THEN [bs[k] EXCEPT !.videos = <<i>> \o @] ELSE bs[k]]
    ELSE Append(bs, [bucket_id |-> bucket_id, videos |-> <<i>>])

setdefault_append(bs, bucket_id, i) ==
    IF \E k \in DOMAIN bs : bs[k].bucket_id = bucket_id
    THEN [k \in DOMAIN bs |->
             IF bs[k].bucket_id = bucket_id
             THEN [bs[k] EXCEPT !.videos = Append(@, i)] ELSE bs[k]]
    ELSE Append(bs, [bucket_id |-> bucket_id, videos |-> <<i>>])

RECURSIVE AgruparLoop(_, _, _)
AgruparLoop(vs, i, bs) ==
    IF i > Len(vs) THEN <<vs, bs>>
    ELSE LET previo == vs[i].bucket_resolucion_fps
             resuelto == IF previo /= None /\ previo[1] /= "" THEN previo
                         ELSE _resolver_bucket_resolucion(vs[i])
             bucket_id == IF resuelto = None THEN _BUCKET_DESCONOCIDO
                          ELSE resuelto[1]
         IN  AgruparLoop([vs EXCEPT ![i].bucket_resolucion_fps = Some(bucket_id)],
                         i + 1, setdefault_append(bs, bucket_id, i))

\* The pair of the videos as the call leaves them and the dict it returns.
agrupar_en_buckets(vs) == AgruparLoop(vs, 1, <<>>)

(***************************************************************************)
(* State.                                                                  *)
(***************************************************************************)
VARIABLES
    pc,                \* stage of the run: "construido", "derivadas", "agrupado"
    videos,            \* the list of VideoAnaliticaDTO
    buckets,           \* the dict returned by agrupar_en_buckets
    bucket_resumenes,  \* per bucket: None or its BucketResumenDTO
    historial,         \* the marcar_outliers calls made so far, each with the
                       \* arguments as they were when the call started
    args,              \* arguments of a direct call of a pure function
    resultado,         \* None or the value that call returned
    excepcion,         \* None or the exception that propagated out of a call
    heuristicas_default,  \* _HEURISTICAS_DEFAULT once evaluador.py is loaded
    disco,             \* the files of the folder: path -> file
    papelera,          \* the files sent to the trash, in order
    rutas,             \* the paths procesar_archivos has still to process
    info               \* None or the VideoInfo of the video in process

vars ==
    <<pc, videos, buckets, bucket_resumenes, historial, args, resultado,
      excepcion, heuristicas_default, disco, papelera, rutas, info>>

(***************************************************************************)
(* Inputs.                                                                 *)
(***************************************************************************)
SeqsHasta(S, n) == UNION {[1..k -> S] : k \in 0..n}

\* _build_video of the tests, with the position of the file in the crawl.
_build_video(i, size_bytes, duracion_seg, bitrate_container_bps, bitrate_video_bps, streams_audio) ==
    VideoAnaliticaDTO(
        VideoArchivoDTO(<<"media", "video" \o ToString(i) \o ".mp4">>,
                        size_bytes),
        VideoStreamDTO(duracion_seg, Some("h264"), bitrate_video_bps,
                       bitrate_container_bps, 640, 480, RatInt(30),
                       FALSE, FALSE),
        streams_audio)

\* File sizes, in MB, of one-minute clips: those of the larger buckets, and
\* those of the buckets of at most MaxVideosChicos videos, where a size of 0
\* leaves mb_por_minuto undefined.
TamanosMb == {2, 3, 6, 9}

TamanosMbChicos == {0, 2, 3, 4}

\* Probe results that exercise each tier of the bitrate estimation:
\* <<size_bytes, container, video stream, audio streams>>.
PerfilesBitrate ==
    { <<0, None, None, None>>,
      <<1, None, None, <<>>>>,
      <<1, Some(1), Some(5), None>>,
      <<1, None, Some(2), <<AudioStreamDTO(None)>>>>,
      <<1, Some(0), Some(2), <<AudioStreamDTO(Some(1)), AudioStreamDTO(None)>>>> }

\* Threshold configurations passed to marcar_outliers: the defaults, and
\* thresholds that the z-scores 3/1.4826 and 6/1.4826 meet exactly.
UmbralesOutliers ==
    { <<>>,
      [mb_por_minuto |-> [outlier_suave |-> RatDiv(RatInt(3), _MAD_FACTOR),
                          outlier_fuerte |-> RatDiv(RatInt(6), _MAD_FACTOR)],
       min_bucket |-> 3] }

\* Heights of the videos of a run in which some cannot be classified.
AlturasPipeline == {0, 480}

EntradasBitrate ==
    [bitrate_container_bps : {None, Some(0), Some(-5), Some(300)},
     bitrate_video_bps : {None, Some(0), Some(200)},
     streams_audio : {None, <<>>, <<AudioStreamDTO(Some(64))>>,
                      <<AudioStreamDTO(Some(0))>>,
                      <<AudioStreamDTO(Some(64)), AudioStreamDTO(None)>>,
                      <<AudioStreamDTO(Some(32)), AudioStreamDTO(Some(64))>>},
     size_bytes : {-1, 0, 1, 100},
     duracion_seg : {None, RatInt(0), Rat(1, 2), RatInt(3), RatInt(64)}]

(***************************************************************************)
(* The pipeline: ejecutar_pipeline's calls, and repeated marcar_outliers   *)
(* calls on a bucket.                                                      *)
(***************************************************************************)
VideosDeTamanos(tamanos) ==
    [i \in DOMAIN tamanos |->
        _build_video(i, tamanos[i] * _BYTES_POR_MB, RatInt(60), Some(250000),
                     None, None)]

\* The lists of n sizes in non-decreasing order.
EnOrden(S, n) == {t \in [1..n -> S] : \A i \in 1..(n - 1) : t[i] <= t[i + 1]}

\* The larger runs: every list of fewer than MaxVideos sizes, and the lists
\* of MaxVideos sizes in order of size (the fixture 2, 3, 3, 6, 9 of the
\* tests among them); the runs of small buckets, some without mb_por_minuto.
InitMb ==
    \/ \E tamanos \in SeqsHasta(TamanosMb, MaxVideos - 1)
                          \cup EnOrden(TamanosMb, MaxVideos) :
          videos = VideosDeTamanos(tamanos)
    \/ \E tamanos \in SeqsHasta(TamanosMbChicos, MaxVideosChicos) :
          videos = VideosDeTamanos(tamanos)

InitBitrate ==
    \E perfiles \in SeqsHasta(PerfilesBitrate, MaxVideosBitrate) :
        videos = [i \in DOMAIN perfiles |->
                     _build_video(i, perfiles[i][1], RatInt(60), perfiles[i][2],
                                  perfiles[i][3], perfiles[i][4])]

\* Videos whose probe reported no usable height next to classifiable ones.
InitAlturas ==
    \E alturas \in SeqsHasta(AlturasPipeline, MaxVideosAlturas) :
        videos = [i \in DOMAIN alturas |->
                     [_build_video(i, 2 * _BYTES_POR_MB, RatInt(60),
                                   Some(250000), None, None)
                         EXCEPT !.stream_video.height = alturas[i]]]

Init ==
    /\ pc = "construido"
    /\ InitMb \/ InitBitrate \/ InitAlturas
    /\ buckets = <<>>
    /\ bucket_resumenes = <<>>
    /\ historial = <<>>
    /\ args = None
    /\ resultado = None
    /\ excepcion = None
    /\ heuristicas_default = None
    /\ disco = None
    /\ papelera = None
    /\ rutas = None
    /\ info = None

CalcularMetricasDerivadas ==
    /\ pc = "construido"
    /\ \E r \in {calcular_metricas_derivadas(videos)} :
          /\ videos' = r[1]
          /\ excepcion' = r[2]
          /\ pc' = IF r[2] = None THEN "derivadas" ELSE "excepcion"
    /\ UNCHANGED <<buckets, bucket_resumenes, historial, args, resultado,
                 heuristicas_default, disco, papelera, rutas, info>>

AgruparEnBuckets ==
    /\ pc = "derivadas"
    /\ LET r == agrupar_en_buckets(videos)
       IN  /\ videos' = r[1]
           /\ buckets' = r[2]
           /\ bucket_resumenes' = [k \in DOMAIN r[2] |-> None]
    /\ pc' = "agrupado"
    /\ UNCHANGED <<historial, args, resultado, excepcion, heuristicas_default, disco, papelera, rutas, info>>

VideosDe(k) == [j \in DOMAIN buckets[k].videos |-> videos[buckets[k].videos[j]]]

CalcularMetricasBucket ==
    /\ pc = "agrupado"
    /\ \E k \in DOMAIN buckets :
          /\ bucket_resumenes[k] = None
          /\ bucket_resumenes' =
                 [bucket_resumenes EXCEPT
                     ![k] = calcular_metricas_bucket(buckets[k].bucket_id,
                                                     VideosDe(k))]
    /\ UNCHANGED <<pc, videos, buckets, historial, args, resultado, excepcion, heuristicas_default, disco, papelera, rutas, info>>

LlamadasDe(k) == Cardinality({n \in DOMAIN historial : historial[n].bucket = k})

MarcarOutliers ==
    /\ pc = "agrupado"
    /\ \E k \in DOMAIN buckets, umbrales \in UmbralesOutliers :
          /\ bucket_resumenes[k] /= None
          /\ LlamadasDe(k) < MaxLlamadas
          /\ \E r \in {marcar_outliers(VideosDe(k), bucket_resumenes[k], umbrales)},
                pos \in {[i \in Range(buckets[k].videos) |->
                            CHOOSE j \in DOMAIN buckets[k].videos :
                                buckets[k].videos[j] = i]} :
                 /\ videos' = [i \in DOMAIN videos |->
                                  IF i \in DOMAIN pos THEN r[1][pos[i]]
                                  ELSE videos[i]]
                 /\ bucket_resumenes' = [bucket_resumenes EXCEPT ![k] = r[2]]
                 /\ historial' = Append(historial,
                                        [bucket |-> k, umbrales |-> umbrales,
                                         videos |-> VideosDe(k),
                                         bucket_resumen |-> bucket_resumenes[k]])
    /\ UNCHANGED <<pc, buckets, args, resultado, excepcion, heuristicas_default, disco, papelera, rutas, info>>

Next ==
    \/ CalcularMetricasDerivadas
    \/ AgruparEnBuckets
    \/ CalcularMetricasBucket
    \/ MarcarOutliers

Spec == Init /\ [][Next]_vars

(***************************************************************************)
(* Direct calls of calcular_bitrate_total_estimado.                        *)
(***************************************************************************)
InitBitrateEstimado ==
    /\ pc = "llamada"
    /\ videos = <<>>
    /\ buckets = <<>>
    /\ bucket_resumenes = <<>>
    /\ historial = <<>>
    /\ args \in EntradasBitrate
    /\ resultado = None
    /\ excepcion = None
    /\ heuristicas_default = None
    /\ disco = None
    /\ papelera = None
    /\ rutas = None
    /\ info = None

LlamarBitrateEstimado ==
    /\ pc = "llamada"
    /\ resultado = None
    /\ resultado' = calcular_bitrate_total_estimado(
                        args.bitrate_container_bps, args.bitrate_video_bps,
                        args.streams_audio, args.size_bytes, args.duracion_seg)
    /\ pc' = "retorno"
    /\ UNCHANGED <<videos, buckets, bucket_resumenes, historial, args, excepcion, heuristicas_default, disco, papelera, rutas, info>>

NextBitrateEstimado == LlamarBitrateEstimado

SpecBitrateEstimado == InitBitrateEstimado /\ [][NextBitrateEstimado]_vars

(***************************************************************************)
(* Properties.                                                             *)
(***************************************************************************)
Flags(video) ==
    IF video.flags_contexto = None THEN {} ELSE Range(video.flags_contexto)

FlagsOutlier == {"OUTLIER_SUAVE", "OUTLIER_FUERTE"}

\* The last marcar_outliers call: its arguments as the call found them, and
\* the bucket's videos and summary as they are now.
Ultima == historial[Len(historial)]

VideosAhora == VideosDe(Ultima.bucket)

ResumenAhora == bucket_resumenes[Ultima.bucket]

UmbralSuave(umbrales) ==
    IF "mb_por_minuto" \in DOMAIN umbrales
       /\ "outlier_suave" \in DOMAIN umbrales["mb_por_minuto"]
    THEN umbrales["mb_por_minuto"]["outlier_suave"] ELSE Rat(20, 10)

UmbralFuerte(umbrales) ==
    IF "mb_por_minuto" \in DOMAIN umbrales
       /\ "outlier_fuerte" \in DOMAIN umbrales["mb_por_minuto"]
    THEN umbrales["mb_por_minuto"]["outlier_fuerte"] ELSE Rat(30, 10)

MinBucket(umbrales) ==
    IF "min_bucket" \in DOMAIN umbrales THEN umbrales["min_bucket"] ELSE 5

RECURSIVE SumaBitrates(_, _)
SumaBitrates(S, streams) ==
    IF S = {} THEN 0
    ELSE LET i == CHOOSE i \in S : TRUE
         IN  streams[i].bitrate_bps[1] + SumaBitrates(S \ {i}, streams)

\* C1: calcular_bitrate_total_estimado returns the container bitrate with
\* provenance "format" when it is present and positive; otherwise the sum of
\* exactly the positive video and audio stream bitrates with provenance
\* "componentes" when there is one; otherwise floor(size_bytes*8/duration)
\* with provenance "tamano" when size and duration are positive; otherwise
\* (None, "none").  A lower tier is never used when a higher one applies.
C1_PrecedenciaBitrate ==
    pc = "retorno" =>
      LET c == args.bitrate_container_bps
          v == args.bitrate_video_bps
          a == args.streams_audio
          d == args.duracion_seg
          bits == args.size_bytes * 8
          hayContainer == c /= None /\ c[1] > 0
          hayVideo == v /= None /\ v[1] > 0
          audioPositivo ==
              IF a = None THEN {}
              ELSE {i \in DOMAIN a :
                       a[i].bitrate_bps /= None /\ a[i].bitrate_bps[1] > 0}
          hayTamano == args.size_bytes > 0 /\ d /= None /\ RatLt(RatInt(0), d)
      IN  IF hayContainer THEN resultado = <<c, "format">>
          ELSE IF hayVideo \/ audioPositivo /= {}
          THEN resultado = <<Some((IF hayVideo THEN v[1] ELSE 0)
                                  + SumaBitrates(audioPositivo, a)),
                             "componentes">>
          ELSE IF hayTamano
          THEN /\ resultado[2] = "tamano"
               /\ resultado[1] /= None
               /\ RatLe(RatMul(RatInt(resultado[1][1]), d), RatInt(bits))
               /\ RatLt(RatInt(bits), RatMul(RatInt(resultado[1][1] + 1), d))
          ELSE resultado = <<None, "none">>

\* Witness of C1: a call that fell through to the size estimate although the
\* container, video and audio bitrates were all present (and zero), and
\* whose quotient is not an integer.
C1_Witness ==
    /\ pc = "retorno"
    /\ args.bitrate_container_bps = Some(0)
    /\ args.bitrate_video_bps = Some(0)
    /\ args.streams_audio = <<AudioStreamDTO(Some(0))>>
    /\ resultado = <<Some(266), "tamano">>

\* C2: in a marcar_outliers call on videos without outlier flags, a video
\* with a defined value, positive median and positive MAD ends with exactly
\* OUTLIER_FUERTE when |z| >= hard_z, exactly OUTLIER_SUAVE when
\* soft_z <= |z| < hard_z, and with neither otherwise, where
\* z = (value - median) / (1.4826 * MAD); both comparisons are inclusive.
C2_FlagsPorZ ==
    historial /= <<>> =>
      LET mediana == Ultima.bucket_resumen.mediana_mb_min
          mad == Ultima.bucket_resumen.mad_mb_min
      IN  \A j \in DOMAIN Ultima.videos :
            LET valor == Ultima.videos[j].mb_por_minuto
            IN  ( /\ Flags(Ultima.videos[j]) \cap FlagsOutlier = {}
                  /\ valor /= None /\ mediana /= None /\ mad /= None
                  /\ RatLt(RatInt(0), mediana) /\ RatLt(RatInt(0), mad) )
                =>
                LET distancia == RatAbs(RatSub(valor, mediana))
                    escala == RatMul(Rat(14826, 10000), mad)
                    fuerte == RatLe(RatMul(UmbralFuerte(Ultima.umbrales), escala),
                                    distancia)
                    suave == RatLe(RatMul(UmbralSuave(Ultima.umbrales), escala),
                                   distancia)
                IN  Flags(VideosAhora[j]) \cap FlagsOutlier =
                        IF fuerte THEN {"OUTLIER_FUERTE"}
                        ELSE IF suave THEN {"OUTLIER_SUAVE"}
                        ELSE {}

\* Witness of C2: a first call in which one video sits exactly on the hard
\* threshold and is flagged OUTLIER_FUERTE, another sits exactly on the soft
\* threshold and is flagged OUTLIER_SUAVE, and a third is below both.
C2_Witness ==
    /\ Len(historial) = 1
    /\ Ultima.bucket_resumen.mad_mb_min /= None
    /\ RatLt(RatInt(0), Ultima.bucket_resumen.mad_mb_min)
    /\ LET mediana == Ultima.bucket_resumen.mediana_mb_min
           escala == RatMul(Rat(14826, 10000), Ultima.bucket_resumen.mad_mb_min)
           dist(j) == RatAbs(RatSub(Ultima.videos[j].mb_por_minuto, mediana))
       IN  /\ \E j \in DOMAIN VideosAhora :
                /\ dist(j) = RatMul(UmbralFuerte(Ultima.umbrales), escala)
                /\ Flags(VideosAhora[j]) \cap FlagsOutlier = {"OUTLIER_FUERTE"}
           /\ \E j \in DOMAIN VideosAhora :
                /\ dist(j) = RatMul(UmbralSuave(Ultima.umbrales), escala)
                /\ Flags(VideosAhora[j]) \cap FlagsOutlier = {"OUTLIER_SUAVE"}
           /\ \E j \in DOMAIN VideosAhora :
                /\ RatLt(RatInt(0), dist(j))
                /\ Flags(VideosAhora[j]) \cap FlagsOutlier = {}

\* The identifiers, in input order, of the videos that gained an outlier
\* flag between the two snapshots of the same list.
RECURSIVE RutasMarcadas(_, _)
RutasMarcadas(antes, ahora) ==
    IF antes = <<>> THEN <<>>
    ELSE (IF (Flags(ahora[1]) \ Flags(antes[1])) \cap FlagsOutlier /= {}
             THEN <<antes[1].archivo.ruta[1] \o "/" \o antes[1].archivo.ruta[2]>>
             ELSE <<>>)
         \o RutasMarcadas(Tail(antes), Tail(ahora))

MbDe(vs) == [j \in DOMAIN vs |-> vs[j].mb_por_minuto]

\* C3: after a marcar_outliers call on a summary whose outlier list was
\* empty, videos_outliers is exactly the identifiers of the videos flagged
\* OUTLIER_SUAVE or OUTLIER_FUERTE by the call, in input order; for the
\* values [2, 3, 3, 6, 9] with thresholds 2.0/3.0 it is the 6.0 video
\* followed by the 9.0 video.
C3_ListaOutliersEnOrden ==
    (historial /= <<>> /\ Ultima.bucket_resumen.videos_outliers = <<>>) =>
      /\ ResumenAhora.videos_outliers = RutasMarcadas(Ultima.videos, VideosAhora)
      /\ ( /\ MbDe(Ultima.videos)
                = <<RatInt(2), RatInt(3), RatInt(3), RatInt(6), RatInt(9)>>
           /\ Ultima.umbrales = <<>> )
         => ResumenAhora.videos_outliers
                = <<"media/video4.mp4", "media/video5.mp4">>

\* Witness of C3: the five-video bucket after its first call, and a bucket
\* whose flagged videos are not in increasing order of value.
C3_Witness ==
    /\ Len(historial) = 1
    /\ MbDe(Ultima.videos)
           = <<RatInt(2), RatInt(3), RatInt(3), RatInt(6), RatInt(9)>>
    /\ Ultima.umbrales = <<>>
    /\ ResumenAhora.videos_outliers = <<"media/video4.mp4", "media/video5.mp4">>

\* C4: when the summary's total_videos is below min_bucket, every video
\* passed to marcar_outliers carries BUCKET_PEQUENO after the call, whatever
\* its metric; otherwise the call adds BUCKET_PEQUENO to no video.
C4_BucketPequeno ==
    historial /= <<>> =>
      \A j \in DOMAIN Ultima.videos :
        IF Ultima.bucket_resumen.total_videos < MinBucket(Ultima.umbrales)
        THEN "BUCKET_PEQUENO" \in Flags(VideosAhora[j])
        ELSE "BUCKET_PEQUENO" \in Flags(VideosAhora[j])
                 <=> "BUCKET_PEQUENO" \in Flags(Ultima.videos[j])

\* Witness of C4: a bucket below the minimum whose median is undefined, with
\* a video without metric that carries the flag after the call.
C4_Witness ==
    /\ Len(historial) = 1
    /\ Ultima.bucket_resumen.total_videos = 2
    /\ Ultima.bucket_resumen.mediana_mb_min = None
    /\ \A j \in DOMAIN VideosAhora :
          /\ VideosAhora[j].mb_por_minuto = None
          /\ Flags(VideosAhora[j]) = {"BUCKET_PEQUENO"}

Ocurrencias(lista, x) == Cardinality({n \in DOMAIN lista : lista[n] = x})

\* C5: after marcar_outliers a video's ratio is value / median when value
\* and median are defined and the median is positive; otherwise it is None,
\* and the call neither adds an outlier flag to that video nor appends it to
\* the outlier list.
C5_Ratio ==
    historial /= <<>> =>
      LET mediana == Ultima.bucket_resumen.mediana_mb_min
      IN  \A j \in DOMAIN Ultima.videos :
            LET valor == Ultima.videos[j].mb_por_minuto
                ratio == VideosAhora[j].ratio_vs_promedio_bucket
                ruta == str(Ultima.videos[j].archivo.ruta)
            IN  IF valor /= None /\ mediana /= None /\ RatLt(RatInt(0), mediana)
                THEN ratio /= None /\ RatMul(ratio, mediana) = valor
                ELSE /\ ratio = None
                     /\ Flags(VideosAhora[j]) \cap FlagsOutlier
                            = Flags(Ultima.videos[j]) \cap FlagsOutlier
                     /\ Ocurrencias(ResumenAhora.videos_outliers, ruta)
                            = Ocurrencias(Ultima.bucket_resumen.videos_outliers,
                                          ruta)

\* Witness of C5: a call on a bucket with a video without metric (ratio
\* None) next to a video of value 3 whose ratio to the median 5/2 is 6/5.
C5_Witness ==
    /\ Len(historial) = 1
    /\ \E j \in DOMAIN VideosAhora :
          /\ VideosAhora[j].mb_por_minuto = None
          /\ VideosAhora[j].ratio_vs_promedio_bucket = None
    /\ \E j \in DOMAIN VideosAhora :
          /\ VideosAhora[j].mb_por_minuto = RatInt(3)
          /\ VideosAhora[j].ratio_vs_promedio_bucket = Rat(6, 5)

\* C6: when the summary's MAD is undefined or <= 0, marcar_outliers still
\* sets the ratio of every video with a defined value and positive median,
\* but adds no outlier flag and leaves the outlier list unchanged.
C6_SinMad ==
    ( /\ historial /= <<>>
      /\ \/ Ultima.bucket_resumen.mad_mb_min = None
         \/ RatLe(Ultima.bucket_resumen.mad_mb_min, RatInt(0)) )
    =>
      LET mediana == Ultima.bucket_resumen.mediana_mb_min
      IN  /\ ResumenAhora.videos_outliers = Ultima.bucket_resumen.videos_outliers
          /\ \A j \in DOMAIN Ultima.videos :
                LET valor == Ultima.videos[j].mb_por_minuto
                    ratio == VideosAhora[j].ratio_vs_promedio_bucket
                IN  /\ Flags(VideosAhora[j]) \cap FlagsOutlier
                           = Flags(Ultima.videos[j]) \cap FlagsOutlier
                    /\ (valor /= None /\ mediana /= None
                        /\ RatLt(RatInt(0), mediana))
                       => (ratio /= None /\ RatMul(ratio, mediana) = valor)

\* Witness of C6: a bucket whose MAD is 0 because most values equal the
\* median 3, with a video of value 9 that has ratio 3 and no outlier flag.
C6_Witness ==
    /\ Len(historial) = 1
    /\ Ultima.bucket_resumen.mediana_mb_min = RatInt(3)
    /\ Ultima.bucket_resumen.mad_mb_min = RatInt(0)
    /\ ResumenAhora.videos_outliers = <<>>
    /\ \E j \in DOMAIN VideosAhora :
          /\ VideosAhora[j].mb_por_minuto = RatInt(9)
          /\ VideosAhora[j].ratio_vs_promedio_bucket = RatInt(3)
          /\ Flags(VideosAhora[j]) \cap FlagsOutlier = {}

\* C7: calling marcar_outliers twice with the same videos, summary and
\* thresholds leaves videos_outliers equal to the single-call list
\* concatenated with itself, and each video's flags and ratio as they were
\* after the first call.
C7_DobleLlamadaAcumula ==
    ( /\ Len(historial) = 2
      /\ historial[1].bucket = historial[2].bucket
      /\ historial[1].umbrales = historial[2].umbrales
      /\ historial[1].bucket_resumen.videos_outliers = <<>> )
    =>
      LET unaLlamada == historial[2].bucket_resumen.videos_outliers
      IN  /\ ResumenAhora.videos_outliers = unaLlamada \o unaLlamada
          /\ \A j \in DOMAIN VideosAhora :
                /\ VideosAhora[j].flags_contexto
                       = historial[2].videos[j].flags_contexto
                /\ VideosAhora[j].ratio_vs_promedio_bucket
                       = historial[2].videos[j].ratio_vs_promedio_bucket

\* Witness of C7: two calls with the same thresholds on a bucket with two
\* flagged videos, whose list then has four entries.
C7_Witness ==
    /\ Len(historial) = 2
    /\ historial[1].umbrales = historial[2].umbrales
    /\ Len(historial[2].bucket_resumen.videos_outliers) = 2
    /\ Len(ResumenAhora.videos_outliers) = 4
    /\ \E j \in DOMAIN VideosAhora :
          Flags(VideosAhora[j]) \cap FlagsOutlier /= {}

Definidos(valores) == SelectSeq(valores, LAMBDA x : x /= None)

\* m is the standard median of the non-empty sequence vals: the middle
\* element by rank for an odd count, the average of the two middle elements
\* for an even count.
EsMediana(m, vals) ==
    LET n == Len(vals)
        h == n \div 2
        NoMayores(x, excl) ==
            Cardinality({k \in DOMAIN vals \ excl : RatLe(vals[k], x)})
        NoMenores(x, excl) ==
            Cardinality({k \in DOMAIN vals \ excl : RatLe(x, vals[k])})
    IN  IF n % 2 = 1
        THEN \E i \in DOMAIN vals :
                /\ vals[i] = m
                /\ NoMayores(m, {i}) >= h
                /\ NoMenores(m, {i}) >= h
        ELSE \E i, j \in DOMAIN vals :
                /\ i /= j
                /\ RatLe(vals[i], vals[j])
                /\ RatAdd(m, m) = RatAdd(vals[i], vals[j])
                /\ NoMayores(vals[i], {i, j}) >= h - 1
                /\ NoMenores(vals[j], {i, j}) >= h - 1

ConResumen == {k \in DOMAIN buckets : bucket_resumenes[k] /= None}

\* C8: calcular_metricas_bucket sets mediana_mb_min to the standard median
\* of the defined mb_por_minuto values and mad_mb_min to the median of their
\* absolute deviations from it; both are None when no value is defined.
\* [2, 3, 4] and [2, 3, 3, 6, 9] both give median 3 and MAD 1.
C8_MedianaMad ==
    \A k \in ConResumen :
      LET vals == Definidos(MbDe(VideosDe(k)))
          mediana == bucket_resumenes[k].mediana_mb_min
          mad == bucket_resumenes[k].mad_mb_min
      IN  IF vals = <<>> THEN mediana = None /\ mad = None
          ELSE /\ mediana /= None /\ mad /= None
               /\ EsMediana(mediana, vals)
               /\ EsMediana(mad, [i \in DOMAIN vals |->
                                     RatAbs(RatSub(vals[i], mediana))])
               /\ vals \in { <<RatInt(2), RatInt(3), RatInt(4)>>,
                             <<RatInt(2), RatInt(3), RatInt(3), RatInt(6),
                               RatInt(9)>> }
                  => (mediana = RatInt(3) /\ mad = RatInt(1))

\* Witness of C8: a bucket of four distinct defined values, whose median 9/2
\* is the average of the two middle ones and whose MAD is 2.
C8_Witness ==
    \E k \in ConResumen :
      /\ MbDe(VideosDe(k)) = <<RatInt(9), RatInt(2), RatInt(6), RatInt(3)>>
      /\ bucket_resumenes[k].mediana_mb_min = Rat(9, 2)
      /\ bucket_resumenes[k].mad_mb_min = RatInt(2)

RECURSIVE SumaDiferenciasCuadradas(_, _)
SumaDiferenciasCuadradas(pares, vals) ==
    IF pares = {} THEN RatInt(0)
    ELSE LET p == CHOOSE p \in pares : TRUE
             dif == RatSub(vals[p[1]], vals[p[2]])
         IN  RatAdd(RatMul(dif, dif),
                    SumaDiferenciasCuadradas(pares \ {p}, vals))

\* C9: desviacion_std_mb_min is None whenever fewer than two videos have a
\* defined mb_por_minuto, and otherwise the population standard deviation of
\* the defined values (variance over n: the sum of the squared pairwise
\* differences divided by n squared); total_videos is the number of videos
\* of the bucket.
C9_DesviacionYTotal ==
    \A k \in ConResumen :
      LET vals == Definidos(MbDe(VideosDe(k)))
          n == Len(vals)
          desviacion == bucket_resumenes[k].desviacion_std_mb_min
          pares == {p \in (DOMAIN vals) \X (DOMAIN vals) : p[1] < p[2]}
      IN  /\ bucket_resumenes[k].total_videos = Len(buckets[k].videos)
          /\ IF n < 2 THEN desviacion = None
             ELSE /\ desviacion /= None
                  /\ desviacion
                       = sqrt(RatDiv(SumaDiferenciasCuadradas(pares, vals),
                                     RatInt(n * n)))

\* Witness of C9: a bucket of three videos, one of them without metric,
\* whose two defined values 2 and 4 have population deviation sqrt(1).
C9_Witness ==
    \E k \in ConResumen :
      /\ bucket_resumenes[k].total_videos = 3
      /\ Len(Definidos(MbDe(VideosDe(k)))) = 2
      /\ bucket_resumenes[k].desviacion_std_mb_min = sqrt(RatInt(1))

\* C10: promedio_bitrate is the arithmetic mean, rounded to the nearest
\* integer, over every video whose bitrate_total_estimado is not None, and
\* is None only when no video has one; a size-based estimate of 0 counts.
C10_PromedioBitrate ==
    \A k \in ConResumen :
      LET estimados == Definidos([j \in DOMAIN VideosDe(k) |->
                                     VideosDe(k)[j].bitrate_total_estimado])
          n == Len(estimados)
          suma == IntSum([i \in DOMAIN estimados |-> estimados[i][1]])
          promedio == bucket_resumenes[k].promedio_bitrate
      IN  IF n = 0 THEN promedio = None
          ELSE /\ promedio /= None
               /\ Abs(2 * n * promedio[1] - 2 * suma) <= n


(***************************************************************************)
(* Direct calls of calcular_mb_por_minuto, on a size and on its double.    *)
(***************************************************************************)
TamanosBytes == {-1, 0, 1, 3, 1024, _BYTES_POR_MB, 10 * _BYTES_POR_MB}

Duraciones ==
    {None, RatInt(-5), RatInt(0), Rat(1, 2), RatInt(10), RatInt(60),
     RatInt(64), RatInt(120)}

InitMbPorMinuto ==
    /\ pc = "llamada"
    /\ videos = <<>>
    /\ buckets = <<>>
    /\ bucket_resumenes = <<>>
    /\ historial = <<>>
    /\ args \in [size_bytes : TamanosBytes, duracion_seg : Duraciones]
    /\ resultado = None
    /\ excepcion = None
    /\ heuristicas_default = None
    /\ disco = None
    /\ papelera = None
    /\ rutas = None
    /\ info = None

LlamarMbPorMinuto ==
    /\ pc = "llamada"
    /\ resultado' =
           [valor |-> calcular_mb_por_minuto(args.size_bytes,
                                             args.duracion_seg),
            valor_doble |-> calcular_mb_por_minuto(2 * args.size_bytes,
                                                   args.duracion_seg)]
    /\ pc' = "retorno"
    /\ UNCHANGED <<videos, buckets, bucket_resumenes, historial, args, excepcion, heuristicas_default, disco, papelera, rutas, info>>

NextMbPorMinuto == LlamarMbPorMinuto

SpecMbPorMinuto == InitMbPorMinuto /\ [][NextMbPorMinuto]_vars

\* C11: calcular_mb_por_minuto returns None exactly when size_bytes <= 0 or
\* the duration is None or <= 0; otherwise its result r is the quotient
\* (size_bytes / 1048576) / (duration / 60), that is r * duration * 1048576 =
\* size_bytes * 60, it is strictly positive (never 0), and the result for
\* twice the size at the same duration is 2 * r.
C11_MbPorMinuto ==
    pc = "retorno" =>
        LET s == args.size_bytes
            d == args.duracion_seg
            r == resultado.valor
        IN  /\ (r = None) <=> (s <= 0 \/ d = None \/ d[1] <= 0)
            /\ r /= None =>
                  /\ RatMul(RatMul(r, d), RatInt(_BYTES_POR_MB))
                         = RatInt(s * _SEGUNDOS_POR_MINUTO)
                  /\ r[1] > 0 /\ r[2] > 0
                  /\ resultado.valor_doble = RatMul(RatInt(2), r)

\* 10 MB in 120 s are 5 MB per minute, and 20 MB are 10.
C11_Witness ==
    /\ pc = "retorno"
    /\ args.size_bytes = 10 * _BYTES_POR_MB
    /\ args.duracion_seg = RatInt(120)
    /\ resultado.valor = RatInt(5)
    /\ resultado.valor_doble = RatInt(10)


(***************************************************************************)
(* Calls on one record: calcular_metricas_derivadas and marcar_outliers in *)
(* any order, the latter with a summary of the caller's choosing.  A       *)
(* caller that catches an exception may call again.                        *)
(***************************************************************************)
MaxOperaciones == 3

Registro(size_bytes, duracion_seg, bitrate_container_bps, bitrate_video_bps, streams_audio, height, fps, codec, es_hdr, es_vfr) ==
    VideoAnaliticaDTO(
        VideoArchivoDTO(<<"media", "video.mp4">>, size_bytes),
        VideoStreamDTO(duracion_seg, codec, bitrate_video_bps,
                       bitrate_container_bps, 640, height, fps, es_hdr,
                       es_vfr),
        streams_audio)

\* Durations around the boundaries 0, 10, 30, 120 and 300, and a probe that
\* reported none.
DuracionesRegistro ==
    {None, RatInt(-1), RatInt(0), Rat(1, 2), RatInt(10), RatInt(29),
     RatInt(30), RatInt(120), RatInt(121), RatInt(300), RatInt(301)}

RegistrosDuracion ==
    {Registro(s, d, c, None, None, 480, RatInt(30), Some("h264"), FALSE, FALSE) :
        s \in {0, _BYTES_POR_MB}, d \in DuracionesRegistro,
        c \in {None, Some(250000)}}

RegistrosBitrate ==
    {Registro(e[1], e[2], e[3], e[4], e[5], 480, RatInt(30), Some("h264"), FALSE, FALSE) :
        e \in {0, _BYTES_POR_MB} \X {RatInt(0), RatInt(60)}
              \X {None, Some(0), Some(300)} \X {None, Some(200)}
              \X {None, <<AudioStreamDTO(Some(64))>>, <<AudioStreamDTO(None)>>}}

RegistrosClasificacion ==
    {Registro(_BYTES_POR_MB, RatInt(60), Some(250000), None, None, e[1], e[2], e[3], e[4], e[5]) :
        e \in {0, 480} \X {RatInt(0), RatInt(30)} \X {None, Some("hevc")}
              \X BOOLEAN \X BOOLEAN}

\* Summaries handed to marcar_outliers: one without statistics, and two
\* whose median and MAD put a 1 MB/min video beyond the default thresholds,
\* the second of a bucket of a single video.
ResumenesCualesquiera ==
    { BucketResumenDTO("480p@30/H264", None, None, 0, None, None, None),
      BucketResumenDTO("480p@30/H264", Some(RatInt(3)), None, 9, None,
                       RatInt(3), Rat(1, 2)),
      BucketResumenDTO("480p@30/H264", Some(RatInt(6)), None, 1, None,
                       RatInt(6), Rat(1, 2)) }

InitRegistro ==
    /\ pc = "registro"
    /\ \/ \E registro \in RegistrosDuracion \cup RegistrosBitrate
                             \cup RegistrosClasificacion :
             videos = <<registro>>
       \/ videos = <<>>
    /\ buckets = <<>>
    /\ bucket_resumenes = <<>>
    /\ historial = <<>>
    /\ args = None
    /\ resultado = None
    /\ excepcion = None
    /\ heuristicas_default = None
    /\ disco = None
    /\ papelera = None
    /\ rutas = None
    /\ info = None

DerivarRegistro ==
    /\ pc \in {"registro", "derivadas", "marcado", "excepcion"}
    /\ Len(historial) < MaxOperaciones
    /\ \E r \in {calcular_metricas_derivadas(videos)} :
          /\ videos' = r[1]
          /\ excepcion' = r[2]
          /\ pc' = IF r[2] = None THEN "derivadas" ELSE "excepcion"
    /\ historial' = Append(historial, [op |-> "calcular_metricas_derivadas",
                                       videos |-> videos])
    /\ UNCHANGED <<buckets, bucket_resumenes, args, resultado,
                 heuristicas_default, disco, papelera, rutas, info>>

MarcarRegistro ==
    /\ pc \in {"registro", "derivadas", "marcado", "excepcion"}
    /\ Len(historial) < MaxOperaciones
    /\ \E bucket_resumen \in ResumenesCualesquiera :
          \E r \in {marcar_outliers(videos, bucket_resumen, <<>>)} :
              /\ videos' = r[1]
              /\ bucket_resumenes' = <<r[2]>>
              /\ historial' = Append(historial,
                                     [op |-> "marcar_outliers",
                                      videos |-> videos,
                                      bucket_resumen |-> bucket_resumen])
    /\ pc' = "marcado"
    /\ excepcion' = None
    /\ UNCHANGED <<buckets, args, resultado,
                 heuristicas_default, disco, papelera, rutas, info>>

NextRegistro ==
    \/ DerivarRegistro
    \/ MarcarRegistro

SpecRegistro == InitRegistro /\ [][NextRegistro]_vars


\* The provenance of the record's bitrate estimate.
FuenteDe(video) ==
    calcular_bitrate_total_estimado(
        video.stream_video.bitrate_container_bps, video.stream_video.bitrate_bps,
        video.streams_audio, video.archivo.size_bytes,
        video.stream_video.duracion_seg)[2]

Derivadas == "calcular_metricas_derivadas"

CorrioDerivadas == \E n \in DOMAIN historial : historial[n].op = Derivadas

\* C12: after calcular_metricas_derivadas on a record with no prior flags,
\* BITRATE_CONTAINER_FALTANTE is present iff the provenance is not the
\* container, ESTIMACION_BITRATE is present iff the provenance is the size
\* estimate, and a record with a positive container bitrate has neither.
C12_FlagsBitrate ==
    (/\ Len(historial) = 1
     /\ historial[1].op = Derivadas
     /\ historial[1].videos[1].flags_contexto = None) =>
        LET video == videos[1]
            container == video.stream_video.bitrate_container_bps
        IN  /\ "BITRATE_CONTAINER_FALTANTE" \in Flags(video)
                   <=> FuenteDe(video) \in {"componentes", "tamano", "none"}
            /\ "ESTIMACION_BITRATE" \in Flags(video)
                   <=> FuenteDe(video) = "tamano"
            /\ (container /= None /\ container[1] > 0) =>
                   Flags(video) \cap {"BITRATE_CONTAINER_FALTANTE",
                                      "ESTIMACION_BITRATE"} = {}

\* The category the boundaries 10, 120 and 300 give the duration n / q.
CategoriaEsperada(d) ==
    IF d[1] < 10 * d[2] THEN "MUY CORTO"
    ELSE IF d[1] <= 120 * d[2] THEN "CORTO"
    ELSE IF d[1] <= 300 * d[2] THEN "MEDIO"
    ELSE "LARGO"

\* C13: once calcular_metricas_derivadas has run on a record of duration d,
\* its category is MUY CORTO if d < 10, CORTO if 10 <= d <= 120, MEDIO if
\* 120 < d <= 300 and LARGO if d > 300; the flag MUY_CORTO is present exactly
\* when 0 < d < 10 and DURACION_CORTA exactly when 10 <= d < 30, never both,
\* and neither when d <= 0.
C13_Duracion ==
    \A i \in DOMAIN videos :
        LET d == videos[i].stream_video.duracion_seg
        IN  (pc \in {"derivadas", "marcado"} /\ CorrioDerivadas /\ d /= None) =>
              /\ videos[i].duracion_categoria = Some(CategoriaEsperada(d))
              /\ "MUY_CORTO" \in Flags(videos[i])
                     <=> (0 < d[1] /\ d[1] < 10 * d[2])
              /\ "DURACION_CORTA" \in Flags(videos[i])
                     <=> (10 * d[2] <= d[1] /\ d[1] < 30 * d[2])
              /\ ~({"MUY_CORTO", "DURACION_CORTA"} \subseteq Flags(videos[i]))
              /\ d[1] <= 0 =>
                     Flags(videos[i]) \cap {"MUY_CORTO", "DURACION_CORTA"} = {}

\* A 29 s record is CORTO and flagged DURACION_CORTA; the model also holds
\* records of 30 s and 120 s, CORTO without a duration flag.
C13_Witness ==
    /\ pc = "derivadas"
    /\ videos[1].stream_video.duracion_seg = RatInt(29)
    /\ videos[1].duracion_categoria = Some("CORTO")
    /\ "DURACION_CORTA" \in Flags(videos[1])

\* C17: whatever calls were made on a record, flags_contexto holds no flag
\* more than once.
C17_FlagsSinDuplicados ==
    \A i \in DOMAIN videos :
        videos[i].flags_contexto /= None =>
            Cardinality(Range(videos[i].flags_contexto))
                = Len(videos[i].flags_contexto)

\* Two runs of calcular_metricas_derivadas around a marcar_outliers call on
\* a record that carries flags of all three origins.
C17_Witness ==
    /\ Len(historial) = 3
    /\ historial[1].op = Derivadas
    /\ historial[2].op = "marcar_outliers"
    /\ historial[3].op = Derivadas
    /\ {"BITRATE_CONTAINER_FALTANTE", "ESTIMACION_BITRATE", "BUCKET_PEQUENO",
        "OUTLIER_FUERTE"} \subseteq Flags(videos[1])

\* C18: no exception propagates out of calcular_metricas_derivadas or
\* marcar_outliers, whatever optional fields of the record are None.
C18_SinExcepciones == excepcion = None

\* The derived fields calcular_metricas_derivadas assigns.
Derivados(video) ==
    <<video.mb_por_minuto, video.bitrate_total_estimado,
      video.bits_por_pixel_frame, video.kbps_total, video.kbps_video,
      video.audio_share_pct, video.duracion_categoria,
      video.bucket_resolucion_fps, video.flags_contexto>>

SegundaCorrida ==
    /\ historial /= <<>>
    /\ Ultima.op = Derivadas
    /\ Len(historial') = Len(historial) + 1
    /\ historial'[Len(historial')].op = Derivadas

\* C19: a run of calcular_metricas_derivadas that directly follows another
\* one on the same record leaves every derived field, the flag list
\* included, as the first run left it.
C19_Idempotencia ==
    [][SegundaCorrida =>
          \A i \in DOMAIN videos : Derivados(videos'[i]) = Derivados(videos[i])]_vars

\* Two consecutive runs on a record that carries flags and a size estimate.
C19_Witness ==
    /\ Len(historial) >= 2
    /\ historial[Len(historial)].op = Derivadas
    /\ historial[Len(historial) - 1].op = Derivadas
    /\ videos[1].kbps_total /= None
    /\ {"BITRATE_CONTAINER_FALTANTE", "ESTIMACION_BITRATE"} \subseteq Flags(videos[1])


\* The flags of a video as a list.
ListaDeFlags(video) ==
    IF video.flags_contexto = None THEN <<>> ELSE video.flags_contexto

\* C29: marcar_outliers writes only ratio_vs_promedio_bucket and the flag
\* list of each video and videos_outliers of the summary: the other fields
\* of the summary (bucket_id, mean, mean bitrate, total_videos, standard
\* deviation, median, MAD) and of every video (mb_por_minuto, bucket id,
\* the other derived metrics, the raw fields) are as before, and so are
\* the order and the members of the list; flags are only added, none is
\* removed; with an empty list nothing changes at all.
C29_MarcoDeMarcar ==
    pc = "marcado" =>
        LET llamada == historial[Len(historial)]
            antes == llamada.videos
            resumen_antes == llamada.bucket_resumen
            resumen == bucket_resumenes[1]
        IN  /\ Len(videos) = Len(antes)
            /\ \A i \in DOMAIN videos :
                  /\ [videos[i] EXCEPT
                         !.ratio_vs_promedio_bucket =
                             antes[i].ratio_vs_promedio_bucket,
                         !.flags_contexto = antes[i].flags_contexto]
                         = antes[i]
                  /\ Len(ListaDeFlags(videos[i])) >= Len(ListaDeFlags(antes[i]))
                  /\ SubSeq(ListaDeFlags(videos[i]), 1,
                            Len(ListaDeFlags(antes[i])))
                         = ListaDeFlags(antes[i])
            /\ [resumen EXCEPT !.videos_outliers = resumen_antes.videos_outliers]
                   = resumen_antes
            /\ antes = <<>> => videos = antes /\ resumen = resumen_antes

\* A video with derived metrics and flags was marked against a summary
\* that says 9 videos: it got its ratio and kept its flags.
C29_Witness ==
    /\ pc = "marcado"
    /\ Len(historial) >= 2
    /\ historial[Len(historial)].videos /= <<>>
    /\ historial[Len(historial)].bucket_resumen.total_videos = 9
    /\ bucket_resumenes[1].total_videos = 9
    /\ ListaDeFlags(historial[Len(historial)].videos[1]) /= <<>>
    /\ historial[Len(historial)].videos[1].ratio_vs_promedio_bucket = None
    /\ videos[1].ratio_vs_promedio_bucket /= None

(***************************************************************************)
(* Direct calls of _normalizar_altura and _normalizar_fps.                 *)
(***************************************************************************)
\* Heights and frame rates on, between and halfway between the reference
\* values, and values that are not positive.
AlturasEntrada ==
    {-1, 0, 1, 144, 192, 193, 300, 480, 600, 900, 1260, 3240, 5000}

FpsEntrada ==
    {RatInt(-30), RatInt(0), Rat(23976, 1000), Rat(49, 2), RatInt(27),
     Rat(55, 2), RatInt(40), RatInt(55), Rat(2997, 50), RatInt(120)}

InitNormalizar ==
    /\ pc = "llamada"
    /\ videos = <<>>
    /\ buckets = <<>>
    /\ bucket_resumenes = <<>>
    /\ historial = <<>>
    /\ args \in [height : AlturasEntrada, fps : FpsEntrada]
    /\ resultado = None
    /\ excepcion = None
    /\ heuristicas_default = None
    /\ disco = None
    /\ papelera = None
    /\ rutas = None
    /\ info = None

LlamarNormalizar ==
    /\ pc = "llamada"
    /\ resultado' = [altura |-> _normalizar_altura(args.height),
                     fps |-> _normalizar_fps(args.fps)]
    /\ pc' = "retorno"
    /\ UNCHANGED <<videos, buckets, bucket_resumenes, historial, args, excepcion, heuristicas_default, disco, papelera, rutas, info>>

NextNormalizar == LlamarNormalizar

SpecNormalizar == InitNormalizar /\ [][NextNormalizar]_vars

Distancia(objetivo, x) == RatAbs(RatSub(RatInt(objetivo), x))

\* r is a reference value at minimal distance from x, the smallest of them.
EsMasCercano(r, x, referencias) ==
    /\ r \in Range(referencias)
    /\ \A objetivo \in Range(referencias) :
          /\ RatLe(Distancia(r, x), Distancia(objetivo, x))
          /\ Distancia(objetivo, x) = Distancia(r, x) => r <= objetivo

SnapMasCercano ==
    pc = "retorno" =>
        /\ args.height > 0 =>
              /\ resultado.altura /= None
              /\ EsMasCercano(resultado.altura[1], RatInt(args.height),
                              _RESOLUCIONES_NORMALIZADAS)
        /\ args.fps[1] > 0 =>
              /\ resultado.fps /= None
              /\ EsMasCercano(resultado.fps[1], args.fps, _FPS_NORMALIZADOS)
        /\ args.height = 600 => resultado.altura = Some(480)

\* C15 as stated: for every positive height and fps the snapped value is
\* the reference value at minimal absolute difference from the input, the
\* smaller one when two are equidistant; height 600 snaps to 480 and fps 27
\* snaps to 24.
C15_SnapOriginal ==
    /\ SnapMasCercano
    /\ (pc = "retorno" /\ args.fps = RatInt(27)) => resultado.fps = Some(24)

\* C15, amended: for every positive height and fps the snapped value is the
\* reference value at minimal absolute difference from the input, the
\* smaller one when two are equidistant; height 600 snaps to 480 and fps 27
\* snaps to 25 (at distance 2, against 3 for 24 and 30).
C15_Snap ==
    /\ SnapMasCercano
    /\ (pc = "retorno" /\ args.fps = RatInt(27)) => resultado.fps = Some(25)

\* Height 600, equidistant from 480 and 720, with fps 27.5, equidistant
\* from 25 and 30.
C15_Witness ==
    /\ pc = "retorno"
    /\ args.height = 600 /\ resultado.altura = Some(480)
    /\ args.fps = Rat(55, 2) /\ resultado.fps = Some(25)

(***************************************************************************)
(* Direct calls of _resolver_bucket_resolucion on two videos.              *)
(***************************************************************************)
EntradasClasificador ==
    [height : {0, 480, 600}, fps : {RatInt(0), Rat(2997, 100), RatInt(30)},
     codec : {None, Some("h264"), Some("H264"), Some("hevc")},
     es_hdr : BOOLEAN]

VideoDeEntrada(e) ==
    Registro(_BYTES_POR_MB, RatInt(60), Some(250000), None, None, e.height,
             e.fps, e.codec, e.es_hdr, FALSE)

InitClasificador ==
    /\ pc = "llamada"
    /\ videos = <<>>
    /\ buckets = <<>>
    /\ bucket_resumenes = <<>>
    /\ historial = <<>>
    /\ args \in EntradasClasificador \X EntradasClasificador
    /\ resultado = None
    /\ excepcion = None
    /\ heuristicas_default = None
    /\ disco = None
    /\ papelera = None
    /\ rutas = None
    /\ info = None

LlamarClasificador ==
    /\ pc = "llamada"
    /\ resultado' = <<_resolver_bucket_resolucion(VideoDeEntrada(args[1])),
                      _resolver_bucket_resolucion(VideoDeEntrada(args[2]))>>
    /\ pc' = "retorno"
    /\ UNCHANGED <<videos, buckets, bucket_resumenes, historial, args, excepcion, heuristicas_default, disco, papelera, rutas, info>>

NextClasificador == LlamarClasificador

SpecClasificador == InitClasificador /\ [][NextClasificador]_vars

\* The codec names of the inputs in upper and in lower case.
Mayusculas == "h264" :> "H264" @@ "H264" :> "H264" @@ "hevc" :> "HEVC"

Minusculas == "h264" :> "h264" @@ "H264" :> "h264" @@ "hevc" :> "hevc"

ClaveEsperada(e) ==
    ToString(_normalizar_altura(e.height)[1]) \o "p@"
        \o ToString(_normalizar_fps(e.fps)[1])
        \o (IF e.es_hdr THEN "/HDR" ELSE "")
        \o "/" \o (IF e.codec = None THEN "UNKNOWN" ELSE Mayusculas[e.codec[1]])

MismoCodecSalvoCaja(c1, c2) ==
    \/ c1 = None /\ c2 = None
    \/ c1 /= None /\ c2 /= None /\ Minusculas[c1[1]] = Minusculas[c2[1]]

\* C14: the classifier returns None if height <= 0 or fps <= 0, and
\* otherwise "{H}p@{F}", then "/HDR" exactly when the video is HDR, then "/"
\* and the upper-cased codec (UNKNOWN when there is none), H and F being the
\* snapped height and fps; two videos with the same snapped height and fps,
\* the same HDR flag and the same codec up to letter case get the same key.
C14_Clasificador ==
    pc = "retorno" =>
        /\ \A n \in {1, 2} :
              IF args[n].height <= 0 \/ args[n].fps[1] <= 0
              THEN resultado[n] = None
              ELSE resultado[n] = Some(ClaveEsperada(args[n]))
        /\ (/\ _normalizar_altura(args[1].height)
                   = _normalizar_altura(args[2].height)
            /\ _normalizar_fps(args[1].fps) = _normalizar_fps(args[2].fps)
            /\ args[1].es_hdr = args[2].es_hdr
            /\ MismoCodecSalvoCaja(args[1].codec, args[2].codec))
               => resultado[1] = resultado[2]

\* 640x480 at 29.97 fps in h264 and a 600-line video at 30 fps in H264,
\* both HDR, share the key 480p@30/HDR/H264.
C14_Witness ==
    /\ pc = "retorno"
    /\ args[1].height = 480 /\ args[1].fps = Rat(2997, 100)
    /\ args[1].codec = Some("h264") /\ args[1].es_hdr
    /\ args[2].height = 600 /\ args[2].fps = RatInt(30)
    /\ args[2].codec = Some("H264") /\ args[2].es_hdr
    /\ resultado = <<Some("480p@30/HDR/H264"), Some("480p@30/HDR/H264")>>


(***************************************************************************)
(* Properties of the pipeline's videos.                                    *)
(***************************************************************************)
EntradaDe(video) ==
    [height |-> video.stream_video.height, fps |-> video.stream_video.fps,
     codec |-> video.stream_video.codec, es_hdr |-> video.stream_video.es_hdr]

SinClasificar(video) ==
    video.stream_video.height <= 0 \/ video.stream_video.fps[1] <= 0

\* C16: once calcular_metricas_derivadas has run, and still after
\* agrupar_en_buckets and the calls that follow it, a video with height <= 0
\* or fps <= 0 has bucket_resolucion_fps None, and every bucket id stored on
\* a video is the key "{height}p@{fps}[/HDR]/{CODEC}" of a classifiable
\* video.
C16_BucketIdSinMarcador ==
    \A i \in DOMAIN videos :
        /\ (pc \in {"derivadas", "agrupado"} /\ SinClasificar(videos[i])) =>
               videos[i].bucket_resolucion_fps = None
        /\ videos[i].bucket_resolucion_fps /= None =>
               /\ ~SinClasificar(videos[i])
               /\ videos[i].bucket_resolucion_fps
                      = Some(ClaveEsperada(EntradaDe(videos[i])))

\* The raw probe fields of a video.
Crudos(video) == <<video.archivo, video.stream_video, video.streams_audio>>

\* C20: no step of the pipeline (calcular_metricas_derivadas,
\* agrupar_en_buckets, calcular_metricas_bucket, marcar_outliers) changes a
\* raw probe field of any video, nor the list of videos.
C20_CamposCrudosIntactos ==
    [][/\ DOMAIN videos' = DOMAIN videos
       /\ \A i \in DOMAIN videos : Crudos(videos'[i]) = Crudos(videos[i])]_vars

\* The four functions have run and written derived fields: a video whose
\* bitrate was estimated from its size carries its bucket, and the summary
\* of a marked bucket exists.
C20_Witness ==
    /\ pc = "agrupado"
    /\ historial /= <<>>
    /\ \E i \in DOMAIN videos :
          /\ "ESTIMACION_BITRATE" \in Flags(videos[i])
          /\ "BUCKET_PEQUENO" \in Flags(videos[i])
          /\ videos[i].bucket_resolucion_fps /= None
          /\ videos[i].stream_video.bitrate_container_bps = None

(***************************************************************************)
(* The evaluator of one video's metrics (app-analizar/evaluador.py).       *)
(*                                                                         *)
(* The field recomendado of a rule is a number, [numero |-> x], or a pair  *)
(* of bounds, [minimo |-> a, maximo |-> b].  A function that can raise     *)
(* returns the pair <<value, exception>>.                                  *)
(***************************************************************************)
Numero(x) == [numero |-> x]

Par(minimo, maximo) == [minimo |-> minimo, maximo |-> maximo]

es_par(recomendado) == "minimo" \in DOMAIN recomendado

Evaluacion(clave, valor, recomendado, ok, diferencia_pct, detalle) ==
    [clave |-> clave, valor |-> valor, recomendado |-> recomendado,
     ok |-> ok, diferencia_pct |-> diferencia_pct, detalle |-> detalle]

\* The generated constructor of the dataclass: it stores its arguments and
\* validates nothing.
ReglaMetrica(clave, descripcion, unidad, comparacion, recomendado) ==
    [clave |-> clave, descripcion |-> descripcion, unidad |-> unidad,
     comparacion |-> comparacion, recomendado |-> recomendado]

\* dataclasses.replace(regla, recomendado=...).
replace(regla, recomendado) == [regla EXCEPT !.recomendado = recomendado]

\* The sign of double(x) - x for the decimal literals of the rule tables
\* that lie on a rounding tie of the format and are not doubles themselves:
\* 0.015 is stored as 0.01499999999999999944...
SesgoDoble(x) == IF x = Rat(15, 1000) THEN -1 ELSE 0

Potencia10(decimales) == IF decimales = 1 THEN 10 ELSE 100

\* The digits of n, left-padded with zeros to the given width (1 or 2).
Relleno(n, ancho) == IF ancho = 2 /\ n < 10 THEN "0" \o ToString(n) ELSE ToString(n)

\* f"{x:.1f}" and f"{x:.2f}": x rounded to the decimals to the nearest,
\* a tie going to the even digit unless the double lies off the tie.
FormatoFijo(x, decimales) ==
    LET p == Potencia10(decimales)
        a == RatMul(RatAbs(x), RatInt(p))
        f == a[1] \div a[2]
        r == 2 * (a[1] - f * a[2])
        n == IF r < a[2] THEN f
             ELSE IF r > a[2] THEN f + 1
             ELSE IF SesgoDoble(RatAbs(x)) < 0 THEN f
             ELSE IF SesgoDoble(RatAbs(x)) > 0 THEN f + 1
             ELSE IF f % 2 = 0 THEN f ELSE f + 1
    IN  (IF x[1] < 0 THEN "-" ELSE "")
            \o ToString(n \div p) \o "." \o Relleno(n % p, decimales)

_fmt(valor) ==
    IF valor[2] = 1 THEN ToString(valor[1]) ELSE FormatoFijo(valor, 2)

\* str.strip() of the texts built here: a trailing blank is left when the
\* unit is empty.
strip(texto) ==
    IF Len(texto) > 0 /\ SubSeq(texto, Len(texto), Len(texto)) = " "
    THEN SubSeq(texto, 1, Len(texto) - 1) ELSE texto

_calc_diff_pct(valor, referencia) ==
    IF referencia[1] = 0 THEN None
    ELSE RatMul(RatDiv(RatAbs(RatSub(valor, referencia)), referencia),
                RatInt(100))

\* float(self.recomendado): a TypeError for a pair.
Excepcion_float(recomendado) ==
    IF es_par(recomendado) THEN Some("TypeError") ELSE None

\* minimo, maximo = self.recomendado: a TypeError for a number.
Excepcion_as_rango(regla) ==
    IF es_par(regla.recomendado) THEN None ELSE Some("TypeError")

_as_rango(regla) ==
    IF Excepcion_as_rango(regla) /= None THEN <<None, Excepcion_as_rango(regla)>>
    ELSE <<<<regla.recomendado.minimo, regla.recomendado.maximo>>, None>>

formato_recomendado(regla) ==
    IF regla.comparacion = "rango"
    THEN LET rango == _as_rango(regla)
         IN  IF rango[2] /= None THEN <<None, rango[2]>>
             ELSE <<strip(_fmt(rango[1][1]) \o " - " \o _fmt(rango[1][2])
                              \o " " \o regla.unidad), None>>
    ELSE LET operador == IF regla.comparacion = "maximo" THEN "<=" ELSE ">="
         IN  IF Excepcion_float(regla.recomendado) /= None
             THEN <<None, Excepcion_float(regla.recomendado)>>
             ELSE <<strip(operador \o " " \o _fmt(regla.recomendado.numero)
                              \o " " \o regla.unidad), None>>

SinDato_fallido(clave, recomendado_txt) ==
    Evaluacion(clave, None, recomendado_txt, Some(FALSE), None, "sin dato")

\* Lines 44-51: the result for a value that is None.
SinDato(clave, recomendado_txt) ==
    Evaluacion(clave, None, recomendado_txt, None, None, "sin dato")

\* Lines 56 and 67: the deviation of a maximo or minimo rule.
DiffPctLimite(ok, valor, limite) ==
    IF ~ok /\ RatLt(RatInt(0), limite) THEN _calc_diff_pct(valor, limite)
    ELSE RatInt(0)

DentroDeRango_estricto(minimo, valor, maximo) == RatLt(minimo, valor) /\ RatLe(valor, maximo)

\* Line 77.
DentroDeRango(minimo, valor, maximo) == RatLe(minimo, valor) /\ RatLe(valor, maximo)

\* Lines 88 and 96: the deviation from the violated bound of a range.
DiffPctRango(valor, cota) ==
    IF RatLt(RatInt(0), cota) THEN _calc_diff_pct(valor, cota) ELSE None

\* ReglaMetrica.evaluar; formato_recomendado runs first (line 41), so a
\* rule it cannot format raises for every value.
evaluar(regla, valor) ==
    LET formato == formato_recomendado(regla)
        recomendado_txt == formato[1]
    IN  IF formato[2] /= None THEN <<None, formato[2]>>
        ELSE IF valor = None
        THEN <<SinDato(regla.clave, recomendado_txt), None>>
        ELSE IF regla.comparacion = "maximo"
        THEN LET limite == regla.recomendado.numero
                 ok == RatLe(valor, limite)
                 diff_pct == DiffPctLimite(ok, valor, limite)
                 detalle == IF ok THEN "dentro del maximo esperado"
                            ELSE "supera el maximo en "
                                     \o FormatoFijo(diff_pct, 1) \o "%"
             IN  <<Evaluacion(regla.clave, valor, recomendado_txt, Some(ok),
                              diff_pct, detalle), None>>
        ELSE IF regla.comparacion = "minimo"
        THEN LET limite == regla.recomendado.numero
                 ok == RatLe(limite, valor)
                 diff_pct == DiffPctLimite(ok, valor, limite)
                 detalle == IF ok THEN "cumple el minimo esperado"
                            ELSE "queda " \o FormatoFijo(diff_pct, 1)
                                     \o "% por debajo del minimo"
             IN  <<Evaluacion(regla.clave, valor, recomendado_txt, Some(ok),
                              diff_pct, detalle), None>>
        ELSE LET minimo == regla.recomendado.minimo
                 maximo == regla.recomendado.maximo
             IN  IF DentroDeRango(minimo, valor, maximo)
                 THEN <<Evaluacion(regla.clave, valor, recomendado_txt,
                                   Some(TRUE), RatInt(0),
                                   "dentro del rango objetivo"), None>>
                 ELSE IF RatLt(valor, minimo)
                 THEN LET diff_pct == DiffPctRango(valor, minimo)
                          detalle == IF diff_pct = None
                                     THEN "por debajo del rango"
                                     ELSE FormatoFijo(diff_pct, 1)
                                              \o "% por debajo del minimo"
                      IN  <<Evaluacion(regla.clave, valor, recomendado_txt,
                                       Some(FALSE), diff_pct, detalle), None>>
                 ELSE LET diff_pct == DiffPctRango(valor, maximo)
                          detalle == IF diff_pct = None
                                     THEN "por encima del rango"
                                     ELSE FormatoFijo(diff_pct, 1)
                                              \o "% por encima del maximo"
                      IN  <<Evaluacion(regla.clave, valor, recomendado_txt,
                                       Some(FALSE), diff_pct, detalle), None>>

(***************************************************************************)
(* The rule tables of evaluador.py and their resolution for a bucket id.   *)
(* A dict is a function on its keys; a bucket id is None or Some(string).  *)
(***************************************************************************)
_HEURISTICAS_DEFAULT ==
    [clave \in {"mb_por_minuto", "bits_por_pixel_frame", "kbps_total",
                "audio_share_pct", "ratio_vs_promedio_bucket"} |->
        CASE clave = "mb_por_minuto" ->
                 ReglaMetrica(clave, "Peso relativo (MB/min)", "MB/min",
                              "rango", Par(RatInt(1), RatInt(8)))
          [] clave = "bits_por_pixel_frame" ->
                 ReglaMetrica(clave,
                              "Bits por pixel por frame (eficiencia del video)",
                              "bppf", "rango", Par(Rat(2, 100), Rat(12, 100)))
          [] clave = "kbps_total" ->
                 ReglaMetrica(clave, "Bitrate total legible", "kbps",
                              "rango", Par(RatInt(500), RatInt(8000)))
          [] clave = "audio_share_pct" ->
                 ReglaMetrica(clave,
                              "Porcentaje de bitrate aportado por el audio",
                              "%", "maximo", Numero(RatInt(40)))
          [] clave = "ratio_vs_promedio_bucket" ->
                 ReglaMetrica(clave, "Relacion frente al bucket", "x",
                              "rango", Par(Rat(7, 10), Rat(13, 10)))]

\* One entry of _HEURISTICAS_POR_BUCKET: the three default rules with
\* their bounds replaced.
HeuristicasDeBucket(mb, kbps, bppf) ==
    [clave \in {"mb_por_minuto", "kbps_total", "bits_por_pixel_frame"} |->
        replace(_HEURISTICAS_DEFAULT[clave],
                CASE clave = "mb_por_minuto" -> mb
                  [] clave = "kbps_total" -> kbps
                  [] clave = "bits_por_pixel_frame" -> bppf)]

_HEURISTICAS_POR_BUCKET ==
    [bucket \in {"360p@30", "480p@30", "720p@30", "1080p@30", "1080p@60",
                 "2160p@30"} |->
        CASE bucket = "360p@30" ->
                 HeuristicasDeBucket(Par(Rat(8, 10), Rat(25, 10)),
                                     Par(RatInt(400), RatInt(1200)),
                                     Par(Rat(15, 1000), Rat(6, 100)))
          [] bucket = "480p@30" ->
                 HeuristicasDeBucket(Par(Rat(12, 10), Rat(35, 10)),
                                     Par(RatInt(700), RatInt(2000)),
                                     Par(Rat(2, 100), Rat(8, 100)))
          [] bucket = "720p@30" ->
                 HeuristicasDeBucket(Par(RatInt(2), RatInt(5)),
                                     Par(RatInt(1200), RatInt(3500)),
                                     Par(Rat(3, 100), Rat(1, 10)))
          [] bucket = "1080p@30" ->
                 HeuristicasDeBucket(Par(Rat(35, 10), Rat(85, 10)),
                                     Par(RatInt(2500), RatInt(6000)),
                                     Par(Rat(4, 100), Rat(12, 100)))
          [] bucket = "1080p@60" ->
                 HeuristicasDeBucket(Par(RatInt(5), RatInt(10)),
                                     Par(RatInt(3500), RatInt(8000)),
                                     Par(Rat(5, 100), Rat(14, 100)))
          [] bucket = "2160p@30" ->
                 HeuristicasDeBucket(Par(RatInt(8), RatInt(20)),
                                     Par(RatInt(8000), RatInt(20000)),
                                     Par(Rat(6, 100), Rat(16, 100)))]

\* str.lower() of one character.
LetraMinuscula(c) ==
    CASE c = "A" -> "a" [] c = "B" -> "b" [] c = "C" -> "c" [] c = "D" -> "d"
      [] c = "E" -> "e" [] c = "F" -> "f" [] c = "G" -> "g" [] c = "H" -> "h"
      [] c = "I" -> "i" [] c = "J" -> "j" [] c = "K" -> "k" [] c = "L" -> "l"
      [] c = "M" -> "m" [] c = "N" -> "n" [] c = "O" -> "o" [] c = "P" -> "p"
      [] c = "Q" -> "q" [] c = "R" -> "r" [] c = "S" -> "s" [] c = "T" -> "t"
      [] c = "U" -> "u" [] c = "V" -> "v" [] c = "W" -> "w" [] c = "X" -> "x"
      [] c = "Y" -> "y" [] c = "Z" -> "z"
      [] OTHER -> c

RECURSIVE lower(_)
lower(texto) ==
    IF Len(texto) = 0 THEN ""
    ELSE LetraMinuscula(Head(texto)) \o lower(Tail(texto))

\* texto.split("/")[0]: the characters before the first "/".
RECURSIVE split_0(_)
split_0(texto) ==
    IF Len(texto) = 0 \/ Head(texto) = "/" THEN ""
    ELSE Head(texto) \o split_0(Tail(texto))

_resolver_bucket_key(bucket_id) ==
    IF bucket_id = None \/ bucket_id[1] = "" THEN None
    ELSE LET bucket_key == lower(bucket_id[1])
             base == split_0(bucket_key)
         IN  IF bucket_key \in DOMAIN _HEURISTICAS_POR_BUCKET
             THEN Some(bucket_key)
             ELSE IF base \in DOMAIN _HEURISTICAS_POR_BUCKET
                  THEN Some(base) ELSE None

update_en_copia_alias(tabla, otras) == <<otras @@ tabla, otras @@ tabla>>

\* dict.update on a dict d: the pair <<d after the update, the table d was
\* made from after the update>>.  dict(tabla) is a copy, so the table stays.
update_en_copia(tabla, otras) == <<otras @@ tabla, tabla>>

\* obtener_reglas: the pair <<reglas, the shared default table afterwards>>.
obtener_reglas(tabla_default, bucket_id) ==
    LET bucket_key == _resolver_bucket_key(bucket_id)
    IN  IF bucket_key /= None /\ bucket_key[1] /= ""
        THEN update_en_copia(tabla_default, _HEURISTICAS_POR_BUCKET[bucket_key[1]])
        ELSE <<tabla_default, tabla_default>>

\* metricas.get(clave).
get_metrica(metricas, clave) ==
    IF clave \in DOMAIN metricas THEN metricas[clave] ELSE None

\* evaluar_metricas: <<dict of Evaluacion, exception, default table after>>.
evaluar_metricas(tabla_default, metricas, bucket_id) ==
    LET r == obtener_reglas(tabla_default, bucket_id)
        reglas == r[1]
        pares == [clave \in DOMAIN reglas |->
                     evaluar(reglas[clave], get_metrica(metricas, clave))]
    IN  IF \E clave \in DOMAIN reglas : pares[clave][2] /= None
        THEN <<None, Some("TypeError"), r[2]>>
        ELSE <<[clave \in DOMAIN reglas |-> pares[clave][1]], None, r[2]>>

(***************************************************************************)
(* Use of the evaluator: a rule is constructed and then evaluated or       *)
(* formatted; or a map of metrics is evaluated for a bucket id.            *)
(***************************************************************************)
Comparaciones == {"maximo", "minimo", "rango"}

\* Thresholds and ranges of metrics, none negative and no range inverted;
\* 0 is a threshold and a bound.
Recomendados ==
    {Numero(RatInt(0)), Numero(RatInt(2)), Numero(RatInt(40))}
        \cup {Par(RatInt(0), RatInt(0)), Par(RatInt(0), RatInt(8)),
              Par(RatInt(1), RatInt(8)), Par(Rat(7, 10), Rat(13, 10))}

ValoresMetrica ==
    {None, RatInt(-1), RatInt(0), Rat(1, 2), Rat(7, 10), RatInt(1),
     RatInt(2), RatInt(8), RatInt(10), RatInt(50)}

BucketIds ==
    {None, Some(""), Some("/"), Some("480p@30"), Some("480P@30/H264"),
     Some("360p@30/HDR/HEVC"), Some("720P@30"), Some("1080p@30/h264"),
     Some("1080P@60/HDR/H264"), Some("2160p@30/"), Some("999p@30/H264"),
     Some("x/480p@30")}

\* Maps of metrics: three of the rule keys, each absent (<<>>), None or a
\* value, with or without a key that no rule has.
ValoresDeMapa == {<<>>, <<None>>, <<Rat(1, 2)>>, <<RatInt(3)>>}

MapaDeMetricas(mb, kbps, audio, otra) ==
    LET entradas == [mb_por_minuto |-> mb, kbps_total |-> kbps,
                     audio_share_pct |-> audio, otra_metrica |-> otra]
        presentes == {clave \in DOMAIN entradas : entradas[clave] /= <<>>}
    IN  [clave \in presentes |-> entradas[clave][1]]

InitRegla ==
    /\ pc = "regla"
    /\ args \in [comparacion : Comparaciones, recomendado : Recomendados,
                 unidad : {"", "MB/min"}, valor : ValoresMetrica]
    /\ resultado = None

InitMetricas ==
    /\ pc = "metricas"
    /\ \E mb \in ValoresDeMapa, kbps \in ValoresDeMapa,
          audio \in ValoresDeMapa, otra \in {<<>>, <<RatInt(3)>>},
          bucket_id \in BucketIds :
          args = [metricas |-> MapaDeMetricas(mb, kbps, audio, otra),
                  bucket_id |-> bucket_id]
    /\ resultado = None

InitEvaluador ==
    /\ InitRegla \/ InitMetricas
    /\ videos = <<>>
    /\ buckets = <<>>
    /\ bucket_resumenes = <<>>
    /\ historial = <<>>
    /\ excepcion = None
    /\ heuristicas_default = _HEURISTICAS_DEFAULT
    /\ disco = None
    /\ papelera = None
    /\ rutas = None
    /\ info = None

\* ReglaMetrica(...): the constructor returns the rule, whatever it holds.
ConstruirRegla ==
    /\ pc = "regla"
    /\ resultado' = [regla |-> ReglaMetrica("metrica", "", args.unidad,
                                             args.comparacion,
                                             args.recomendado)]
    /\ pc' = "construida"
    /\ historial' = Append(historial, "ReglaMetrica")
    /\ UNCHANGED <<videos, buckets, bucket_resumenes, args, excepcion,
                   heuristicas_default, disco, papelera, rutas, info>>

Evaluar ==
    /\ pc = "construida"
    /\ \E r \in {evaluar(resultado.regla, args.valor)} :
          /\ resultado' = [regla |-> resultado.regla, evaluacion |-> r[1]]
          /\ excepcion' = r[2]
          /\ pc' = IF r[2] = None THEN "evaluada" ELSE "excepcion"
    /\ historial' = Append(historial, "evaluar")
    /\ UNCHANGED <<videos, buckets, bucket_resumenes, args,
                   heuristicas_default, disco, papelera, rutas, info>>

FormatoRecomendado ==
    /\ pc = "construida"
    /\ \E r \in {formato_recomendado(resultado.regla)} :
          /\ resultado' = [regla |-> resultado.regla, texto |-> r[1]]
          /\ excepcion' = r[2]
          /\ pc' = IF r[2] = None THEN "formateada" ELSE "excepcion"
    /\ historial' = Append(historial, "formato_recomendado")
    /\ UNCHANGED <<videos, buckets, bucket_resumenes, args,
                   heuristicas_default, disco, papelera, rutas, info>>

ObtenerReglas ==
    /\ pc = "metricas"
    /\ \E r \in {obtener_reglas(heuristicas_default, args.bucket_id)} :
          /\ resultado' = [reglas |-> r[1]]
          /\ heuristicas_default' = r[2]
    /\ pc' = "reglas"
    /\ historial' = Append(historial, "obtener_reglas")
    /\ UNCHANGED <<videos, buckets, bucket_resumenes, args, excepcion,
                   disco, papelera, rutas, info>>

EvaluarMetricas ==
    /\ pc \in {"metricas", "reglas"}
    /\ \E r \in {evaluar_metricas(heuristicas_default, args.metricas,
                                  args.bucket_id)} :
          /\ resultado' = [evaluaciones |-> r[1]]
          /\ excepcion' = r[2]
          /\ heuristicas_default' = r[3]
          /\ pc' = IF r[2] = None THEN "evaluadas" ELSE "excepcion"
    /\ historial' = Append(historial, "evaluar_metricas")
    /\ UNCHANGED <<videos, buckets, bucket_resumenes, args, disco, papelera, rutas, info>>

NextEvaluador ==
    \/ ConstruirRegla
    \/ Evaluar
    \/ FormatoRecomendado
    \/ ObtenerReglas
    \/ EvaluarMetricas

SpecEvaluador == InitEvaluador /\ [][NextEvaluador]_vars

(***************************************************************************)
(* Properties of the evaluator.                                            *)
(***************************************************************************)
EsSinDato(evaluacion) ==
    /\ evaluacion.ok = None
    /\ evaluacion.valor = None
    /\ evaluacion.diferencia_pct = None
    /\ evaluacion.detalle = "sin dato"

\* C21: evaluating a value of None against a maximo, minimo or rango rule
\* gives the no-data result (ok None, valor None, diferencia_pct None,
\* detalle "sin dato"); evaluar_metricas returns one result per key of the
\* rules resolved for the bucket id, and the result of a rule whose metric
\* is absent from the map, or None in it, is the no-data result.
C21_SinDato ==
    /\ (pc = "evaluada" /\ args.valor = None) =>
           EsSinDato(resultado.evaluacion)
    /\ pc = "evaluadas" =>
           /\ DOMAIN resultado.evaluaciones = DOMAIN _HEURISTICAS_DEFAULT
           /\ \A clave \in DOMAIN resultado.evaluaciones :
                 /\ resultado.evaluaciones[clave].clave = clave
                 /\ (clave \notin DOMAIN args.metricas
                        \/ args.metricas[clave] = None)
                       <=> EsSinDato(resultado.evaluaciones[clave])

\* A map with mb_por_minuto None, kbps_total present, audio_share_pct
\* absent and a key that no rule has: five results, three without data.
C21_Witness ==
    /\ pc = "evaluadas"
    /\ args.bucket_id = Some("480P@30/H264")
    /\ DOMAIN args.metricas = {"mb_por_minuto", "kbps_total", "otra_metrica"}
    /\ args.metricas["mb_por_minuto"] = None
    /\ EsSinDato(resultado.evaluaciones["mb_por_minuto"])
    /\ EsSinDato(resultado.evaluaciones["audio_share_pct"])
    /\ resultado.evaluaciones["kbps_total"].ok = Some(FALSE)

\* |valor - referencia| / referencia * 100, undefined for a referencia of 0.
DesviacionPct(valor, referencia) ==
    IF referencia = RatInt(0) THEN None
    ELSE RatDiv(RatMul(RatAbs(RatSub(valor, referencia)), RatInt(100)),
                referencia)

\* C22: for a value that is not None, a maximo rule passes exactly when
\* valor <= threshold and a minimo rule exactly when valor >= threshold;
\* when the rule fails the deviation is |valor - threshold| / threshold *
\* 100, and it is None, not 0, when the threshold is 0.
C22_MaximoMinimo ==
    (/\ pc = "evaluada"
     /\ args.comparacion \in {"maximo", "minimo"}
     /\ args.valor /= None) =>
        LET limite == args.recomendado.numero
            pasa == IF args.comparacion = "maximo"
                    THEN RatLe(args.valor, limite)
                    ELSE RatLe(limite, args.valor)
        IN  /\ resultado.evaluacion.ok = Some(pasa)
            /\ ~pasa => resultado.evaluacion.diferencia_pct
                            = DesviacionPct(args.valor, limite)

\* C23: for a value that is not None, a rango rule (min, max) passes
\* exactly when min <= valor <= max; below min it fails with the deviation
\* from min, reported as "% por debajo del minimo", above max with the
\* deviation from max, reported as "% por encima del maximo", and the
\* percentage is None when the violated bound is 0.  For (1.0, 8.0) and
\* 0.5 the verdict is false with 50.0% below the minimum.
C23_Rango ==
    (/\ pc = "evaluada"
     /\ args.comparacion = "rango"
     /\ args.valor /= None) =>
        LET minimo == args.recomendado.minimo
            maximo == args.recomendado.maximo
            e == resultado.evaluacion
        IN  /\ e.ok = Some(RatLe(minimo, args.valor) /\ RatLe(args.valor, maximo))
            /\ RatLt(args.valor, minimo) =>
                  /\ e.diferencia_pct = DesviacionPct(args.valor, minimo)
                  /\ e.detalle =
                        IF minimo = RatInt(0) THEN "por debajo del rango"
                        ELSE FormatoFijo(DesviacionPct(args.valor, minimo), 1)
                                 \o "% por debajo del minimo"
            /\ RatLt(maximo, args.valor) =>
                  /\ e.diferencia_pct = DesviacionPct(args.valor, maximo)
                  /\ e.detalle =
                        IF maximo = RatInt(0) THEN "por encima del rango"
                        ELSE FormatoFijo(DesviacionPct(args.valor, maximo), 1)
                                 \o "% por encima del maximo"
            /\ (args.recomendado = Par(RatInt(1), RatInt(8))
                   /\ args.valor = Rat(1, 2)) =>
                  /\ e.ok = Some(FALSE)
                  /\ e.diferencia_pct = RatInt(50)
                  /\ e.detalle = "50.0% por debajo del minimo"

\* The rule (1.0, 8.0) evaluated on 0.5.
C23_Witness ==
    /\ pc = "evaluada"
    /\ args.comparacion = "rango"
    /\ args.recomendado = Par(RatInt(1), RatInt(8))
    /\ args.valor = Rat(1, 2)
    /\ resultado.evaluacion.detalle = "50.0% por debajo del minimo"

\* The override key expected for each bucket id: the whole id or its
\* leading segment, in lower case, when the override table has it.
ClaveDeOverride ==
    [bucket_id \in BucketIds |->
        CASE bucket_id = Some("480p@30") -> Some("480p@30")
          [] bucket_id = Some("480P@30/H264") -> Some("480p@30")
          [] bucket_id = Some("360p@30/HDR/HEVC") -> Some("360p@30")
          [] bucket_id = Some("720P@30") -> Some("720p@30")
          [] bucket_id = Some("1080p@30/h264") -> Some("1080p@30")
          [] bucket_id = Some("1080P@60/HDR/H264") -> Some("1080p@60")
          [] bucket_id = Some("2160p@30/") -> Some("2160p@30")
          [] OTHER -> None]

\* C24: obtener_reglas takes the override whose key is the whole bucket id
\* in lower case, else the one whose key is the id's segment before the
\* first "/", else none; the result has every default key, the keys of the
\* chosen override replaced and the others at their default rule; a None,
\* empty or unmatched id gives the defaults; the shared default table is
\* never modified by a call.
C24_ObtenerReglas ==
    /\ heuristicas_default = _HEURISTICAS_DEFAULT
    /\ pc = "reglas" =>
          LET override == ClaveDeOverride[args.bucket_id]
              reglas == resultado.reglas
          IN  /\ DOMAIN reglas = DOMAIN _HEURISTICAS_DEFAULT
              /\ \A clave \in DOMAIN reglas :
                    reglas[clave] =
                        IF override /= None
                           /\ clave \in DOMAIN _HEURISTICAS_POR_BUCKET[override[1]]
                        THEN _HEURISTICAS_POR_BUCKET[override[1]][clave]
                        ELSE _HEURISTICAS_DEFAULT[clave]

\* The id 480P@30/H264 resolved through its leading segment: the override
\* of mb_por_minuto is in the result and audio_share_pct keeps its default.
C24_Witness ==
    /\ pc = "reglas"
    /\ args.bucket_id = Some("480P@30/H264")
    /\ resultado.reglas["mb_por_minuto"].recomendado
           = Par(Rat(12, 10), Rat(35, 10))
    /\ resultado.reglas["audio_share_pct"]
           = _HEURISTICAS_DEFAULT["audio_share_pct"]
    /\ heuristicas_default = _HEURISTICAS_DEFAULT

\* A rule whose recomendado has the shape its comparacion needs.
BienConfigurada(regla) ==
    (regla.comparacion = "rango") <=> es_par(regla.recomendado)

\* C25: a rule of comparacion "rango" without a pair of bounds, or a
\* maximo or minimo rule with a pair, is rejected at construction: a rule
\* that was constructed is well configured, and no exception comes out of
\* a later call of evaluar or formato_recomendado.
C25_RechazoAlConstruir ==
    /\ pc \in {"construida", "evaluada", "formateada"} =>
           BienConfigurada(resultado.regla)
    /\ pc = "excepcion" => historial[Len(historial)] = "ReglaMetrica"

(***************************************************************************)
(* The converter (src/video_processor.py).                                 *)
(*                                                                         *)
(* A path is a string.  A file is a record [contenido, size]; the file     *)
(* system is the record [insensible, disco, papelera, error]: disco maps   *)
(* the key of a path (the path itself, or the path in lower case on a      *)
(* file system that does not distinguish case) to the file stored there,   *)
(* papelera lists the files sent to the trash, and error is None or the    *)
(* exception raised by an operation, after which the later operations of   *)
(* the same try block do not run.                                          *)
(***************************************************************************)
AGREGAR_SUFIJO_CONVERTED == FALSE

\* The last position of the character c in texto[1..i], 0 if there is none.
RECURSIVE UltimoIndice(_, _, _)
UltimoIndice(texto, c, i) ==
    IF i = 0 THEN 0
    ELSE IF SubSeq(texto, i, i) = c THEN i
    ELSE UltimoIndice(texto, c, i - 1)

\* os.path.basename, os.path.dirname, os.path.splitext, os.path.join.
basename(path) ==
    SubSeq(path, UltimoIndice(path, "/", Len(path)) + 1, Len(path))

dirname(path) ==
    LET k == UltimoIndice(path, "/", Len(path))
    IN  IF k <= 1 THEN SubSeq(path, 1, k) ELSE SubSeq(path, 1, k - 1)

splitext(nombre) ==
    LET k == UltimoIndice(nombre, ".", Len(nombre))
    IN  IF k <= 1 THEN <<nombre, "">>
        ELSE <<SubSeq(nombre, 1, k - 1), SubSeq(nombre, k, Len(nombre))>>

join(carpeta, nombre) ==
    IF carpeta = "" THEN nombre
    ELSE IF SubSeq(carpeta, Len(carpeta), Len(carpeta)) = "/"
    THEN carpeta \o nombre
    ELSE carpeta \o "/" \o nombre

\* os.path.abspath of a path without "." or ".." segments.
abspath(path) ==
    IF Len(path) > 0 /\ Head(path) = "/" THEN path ELSE join("/cwd", path)

obtener_ext_salida(ext_original) ==
    LET contenedores_h264 == {".mp4", ".mkv", ".mov", ".avi", ".flv", ".ts"}
        ext == lower(ext_original)
    IN  IF ext \in contenedores_h264 THEN ext ELSE ".mp4"

Clave(sistema, path) == IF sistema.insensible THEN lower(path) ELSE path

exists(sistema, path) == Clave(sistema, path) \in DOMAIN sistema.disco

getsize(sistema, path) == sistema.disco[Clave(sistema, path)].size

Quitar(d, clave) == [k \in DOMAIN d \ {clave} |-> d[k]]

\* send2trash(path): the file leaves the folder for the trash.
send2trash(sistema, path) ==
    IF sistema.error /= None THEN sistema
    ELSE IF ~exists(sistema, path)
    THEN [sistema EXCEPT !.error = Some("OSError")]
    ELSE [sistema EXCEPT
             !.disco = Quitar(@, Clave(sistema, path)),
             !.papelera = Append(@, sistema.disco[Clave(sistema, path)])]

\* os.rename(origen, destino).
rename(sistema, origen, destino) ==
    IF sistema.error /= None THEN sistema
    ELSE IF ~exists(sistema, origen)
    THEN [sistema EXCEPT !.error = Some("FileNotFoundError")]
    ELSE [sistema EXCEPT
             !.disco = (Clave(sistema, destino)
                            :> sistema.disco[Clave(sistema, origen)])
                       @@ Quitar(@, Clave(sistema, origen))]

\* VideoInfo(path=ruta) and its __post_init__; guid is uuid4().hex[:8].
VideoInfo(sistema, path, guid) ==
    LET nombre == basename(path)
        carpeta == dirname(path)
        base == splitext(nombre)[1]
        ext == splitext(nombre)[2]
        ext_salida == obtener_ext_salida(ext)
        base_converted == base \o "_converted"
        salida_ruta == join(carpeta, base_converted \o ext_salida)
        path_salida ==
            IF exists(sistema, salida_ruta)
            THEN join(carpeta, base_converted \o "_" \o guid \o ext_salida)
            ELSE salida_ruta
    IN  [path |-> path, nombre |-> nombre, path_salida |-> path_salida,
         path_final |-> IF AGREGAR_SUFIJO_CONVERTED THEN path_salida
                        ELSE join(carpeta, base \o ext_salida),
         fps |-> None]

ConvertidoEsMayor_o_igual(size_convertido, size_original) == size_convertido >= size_original

\* Line 272.
ConvertidoEsMayor(size_convertido, size_original) == size_convertido > size_original

\* Lines 275-276 and 287-288: whatever is at final_path goes to the trash.
LiberarFinal(sistema, final_path) ==
    IF sistema.error = None /\ exists(sistema, final_path)
    THEN send2trash(sistema, final_path) ELSE sistema

\* quedarse_con_mejor_archivo: the file system after the call; its field
\* error holds the exception that the except clause logged, if any.
quedarse_con_mejor_archivo(sistema, video) ==
    IF ~exists(sistema, video.path_salida) THEN sistema
    ELSE IF ~exists(sistema, video.path)
    THEN [sistema EXCEPT !.error = Some("FileNotFoundError")]
    ELSE
      LET size_original == getsize(sistema, video.path)
          size_convertido == getsize(sistema, video.path_salida)
          final_path == video.path_final
      IN  IF ConvertidoEsMayor(size_convertido, size_original)
          THEN LET s1 == send2trash(sistema, video.path_salida)
               IN  IF abspath(final_path) /= abspath(video.path)
                   THEN rename(LiberarFinal(s1, final_path), video.path,
                               final_path)
                   ELSE s1
          ELSE LET s1 == send2trash(sistema, video.path)
               IN  IF abspath(video.path_salida) /= abspath(final_path)
                   THEN rename(LiberarFinal(s1, final_path),
                               video.path_salida, final_path)
                   ELSE s1

(***************************************************************************)
(* procesar_archivos: for each path, probe the video, convert it with      *)
(* ffmpeg and keep the better file.                                        *)
(***************************************************************************)
\* The videos a folder may hold before the run: the same name with a
\* compatible extension in lower and in upper case, with an extension that
\* is not an H.264 container, and a file named as a converted output.
ArchivosPrevios ==
    {"/v/clip.mp4", "/v/clip.MP4", "/v/clip.wmv", "/v/clip_converted.mp4"}

TamanoPrevio == 4

\* Sizes of the output of a conversion that ends well, and of the partial
\* output of one that does not.
TamanosConvertido == {2, 4, 6}

TamanosParcial == {1}

Guids == {"0a1b2c3d"}

Sistema == [insensible |-> args.insensible, disco |-> disco, papelera |-> papelera, error |-> None]

SinRepetidos(lista) ==
    \A i, j \in DOMAIN lista : i /= j => lista[i] /= lista[j]

InitConversor ==
    /\ pc = "ruta"
    /\ videos = <<>>
    /\ buckets = <<>>
    /\ bucket_resumenes = <<>>
    /\ historial = <<>>
    /\ args \in [insensible : BOOLEAN]
    /\ resultado = None
    /\ excepcion = None
    /\ heuristicas_default = None
    /\ papelera = <<>>
    /\ info = None
    /\ \E paths \in SUBSET ArchivosPrevios :
          /\ \A p, q \in paths :
                Clave([insensible |-> args.insensible], p)
                    = Clave([insensible |-> args.insensible], q) => p = q
          /\ disco = [clave \in {Clave([insensible |-> args.insensible], p) :
                                     p \in paths} |->
                         [contenido |->
                              CHOOSE p \in paths :
                                  Clave([insensible |-> args.insensible], p)
                                      = clave,
                          size |-> TamanoPrevio]]
          /\ rutas \in {lista \in SeqsHasta(paths, MaxRutas) :
                            lista /= <<>> /\ SinRepetidos(lista)}

\* generar_comando_ffmpeg: the input and the output of the command (the
\* filter, rate and audio arguments do not name files); it returns a
\* command for every VideoInfo that obtener_info_video builds.
generar_comando_ffmpeg(path, video) == <<"ffmpeg", "-i", path, video.path_salida>>

\* The rest of the list after the current path (the next iteration of the
\* loop of procesar_archivos).
Continuar ==
    /\ rutas' = Tail(rutas)
    /\ pc' = IF Tail(rutas) = <<>> THEN "fin" ELSE "ruta"

\* Lines 15-18: obtener_info_video; without fps (no file, no video stream,
\* ffprobe failing) the loop goes on to the next path.
ObtenerInfoVideo ==
    /\ pc = "ruta"
    /\ rutas /= <<>>
    /\ \E guid \in Guids :
       \E fps \in IF exists(Sistema, Head(rutas))
                  THEN {None, RatInt(30)} ELSE {None} :
          /\ info' = [VideoInfo(Sistema, Head(rutas), guid) EXCEPT !.fps = fps]
          /\ IF fps = None THEN Continuar
             ELSE pc' = "info" /\ rutas' = rutas
    /\ UNCHANGED <<videos, buckets, bucket_resumenes, historial, args,
                   resultado, excepcion, heuristicas_default, disco, papelera>>

\* Lines 21-23: the command is generated and ffmpeg runs.  It ends with
\* code 0 and a whole output, or with another code and no output or a
\* partial one, or Popen raises; ejecutar_ffmpeg logs the outcome and
\* returns nothing.
EjecutarFfmpeg ==
    /\ pc = "info"
    /\ generar_comando_ffmpeg(info.path, info) /= None
    /\ \E codigo \in {"0", "1", "excepcion"} :
       \E salida \in CASE codigo = "0" -> {<<n>> : n \in TamanosConvertido}
                       [] codigo = "1" ->
                              {<<>>} \cup {<<n>> : n \in TamanosParcial}
                       [] OTHER -> {<<>>} :
          /\ resultado' = codigo
          /\ disco' = IF salida = <<>> THEN disco
                      ELSE (Clave(Sistema, info.path_salida)
                                :> [contenido |-> "convertido de " \o info.path,
                                    size |-> salida[1]]) @@ disco
    /\ pc' = "ffmpeg"
    /\ UNCHANGED <<videos, buckets, bucket_resumenes, historial, args,
                   excepcion, heuristicas_default, papelera, rutas, info>>

\* Line 24: quedarse_con_mejor_archivo, whatever ffmpeg did.  The call is
\* recorded with the file system as it found it and the exception that it
\* logged, if any.
QuedarseConMejorArchivo ==
    /\ pc = "ffmpeg"
    /\ \E r \in {quedarse_con_mejor_archivo(Sistema, info)} :
          /\ disco' = r.disco
          /\ papelera' = r.papelera
          /\ historial' = Append(historial,
                                 [info |-> info, codigo |-> resultado,
                                  disco |-> disco, papelera |-> papelera,
                                  error |-> r.error])
    /\ Continuar
    /\ UNCHANGED <<videos, buckets, bucket_resumenes, args, resultado,
                   excepcion, heuristicas_default, info>>

NextConversor ==
    \/ ObtenerInfoVideo
    \/ EjecutarFfmpeg
    \/ QuedarseConMejorArchivo

SpecConversor == InitConversor /\ [][NextConversor]_vars

(***************************************************************************)
(* Properties of the converter.                                            *)
(***************************************************************************)
\* The last call of quedarse_con_mejor_archivo, in a state where the
\* folder is still as that call left it.
UltimaLlamada == historial[Len(historial)]

TrasLlamada == historial /= <<>> /\ pc \in {"ruta", "fin"}

\* The file system as the last call found it, and the two versions of the
\* video it was called for.
AntesDeUltima == [insensible |-> args.insensible, disco |-> UltimaLlamada.disco, papelera |-> UltimaLlamada.papelera, error |-> None]

Original == UltimaLlamada.disco[Clave(AntesDeUltima, UltimaLlamada.info.path)]

HayConvertido == exists(AntesDeUltima, UltimaLlamada.info.path_salida)

Convertido == UltimaLlamada.disco[Clave(AntesDeUltima, UltimaLlamada.info.path_salida)]

\* The files that the last call sent to the trash.
Desechados ==
    {papelera[n] : n \in (Len(UltimaLlamada.papelera) + 1)..Len(papelera)}

\* C26: after quedarse_con_mejor_archivo completes without error for a
\* video whose converted output exists, exactly one of the original and
\* the converted file remains on disk, at path_final, and it is the
\* smaller one: the converted file when its size is <= the original's,
\* the original when the converted file is strictly larger.
C26_QuedaElMenor ==
    (TrasLlamada /\ UltimaLlamada.error = None /\ HayConvertido) =>
        LET final == Clave(Sistema, UltimaLlamada.info.path_final)
        IN  /\ {clave \in DOMAIN disco : disco[clave] \in {Original, Convertido}}
                   = {final}
            /\ disco[final] = IF Convertido.size <= Original.size
                              THEN Convertido ELSE Original

\* A converted file of the size of the original replaced it under the
\* original's name, and the original is in the trash.
C26_Witness ==
    /\ TrasLlamada /\ UltimaLlamada.error = None /\ HayConvertido
    /\ Convertido.size = Original.size
    /\ UltimaLlamada.info.path = "/v/clip.mp4"
    /\ disco["/v/clip.mp4"] = Convertido
    /\ Original \in Desechados

\* C27: the original of a video goes to the trash only after a conversion
\* of that video that ended with code 0 and without exception: when
\* ejecutar_ffmpeg failed or ffmpeg ended with another code, the original
\* is still in place, even with a partial, smaller output at path_salida.
C27_OriginalTrasExito ==
    (TrasLlamada /\ UltimaLlamada.codigo /= "0") =>
        /\ Original \notin Desechados
        /\ exists(Sistema, UltimaLlamada.info.path)
        /\ disco[Clave(Sistema, UltimaLlamada.info.path)] = Original

\* C28: quedarse_con_mejor_archivo sends to the trash only the original
\* or the converted output of its video; every other file of the folder,
\* one at path_final included, stays where it was, as it was.
C28_SoloLasDosVersiones ==
    TrasLlamada =>
        LET versiones == {Original}
                             \cup (IF HayConvertido THEN {Convertido} ELSE {})
        IN  /\ Desechados \subseteq versiones
            /\ \A clave \in DOMAIN UltimaLlamada.disco :
                  UltimaLlamada.disco[clave] \notin versiones =>
                      /\ clave \in DOMAIN disco
                      /\ disco[clave] = UltimaLlamada.disco[clave]

(***************************************************************************)
(* One run of ejecutar_pipeline (pipeline/workflow.py): derived metrics,   *)
(* grouping, and then, bucket by bucket in the order of the dict, the      *)
(* summary of the bucket and the marking of its videos.                    *)
(***************************************************************************)
\* Line 49-52.
umbrales_outliers ==
    [mb_por_minuto |-> [outlier_suave |-> RatInt(2),
                        outlier_fuerte |-> RatInt(3)],
     min_bucket |-> 5]

\* Probe results of the videos of a run, <<height, size in MB>>: three
\* sizes at 480 lines (9 MB is an outlier next to 2 and 3), one video at
\* 1080 lines and one without usable height.
EntradasPipeline == {<<480, 2>>, <<480, 3>>, <<480, 9>>, <<1080, 3>>, <<0, 3>>}

InitPipeline ==
    /\ pc = "construido"
    /\ \E entradas \in SeqsHasta(EntradasPipeline, MaxVideosPipeline) :
          videos = [i \in DOMAIN entradas |->
                       [_build_video(i, entradas[i][2] * _BYTES_POR_MB,
                                     RatInt(60), Some(250000), None, None)
                           EXCEPT !.stream_video.height = entradas[i][1]]]
    /\ buckets = <<>>
    /\ bucket_resumenes = <<>>
    /\ historial = <<>>
    /\ args = None
    /\ resultado = None
    /\ excepcion = None
    /\ heuristicas_default = None
    /\ disco = None
    /\ papelera = None
    /\ rutas = None
    /\ info = None

\* The bucket of the current iteration of the loop of line 54.
BucketActual == Len(historial) + 1

\* Lines 55-56.
ResumirBucketActual ==
    /\ pc = "agrupado"
    /\ BucketActual \in DOMAIN buckets
    /\ bucket_resumenes[BucketActual] = None
    /\ bucket_resumenes' =
           [bucket_resumenes EXCEPT
               ![BucketActual] =
                   calcular_metricas_bucket(buckets[BucketActual].bucket_id,
                                            VideosDe(BucketActual))]
    /\ UNCHANGED <<pc, videos, buckets, historial, args, resultado, excepcion,
                   heuristicas_default, disco, papelera, rutas, info>>

\* Line 57, and the end of the loop after the last bucket.
MarcarBucketActual ==
    /\ pc = "agrupado"
    /\ BucketActual \in DOMAIN buckets
    /\ bucket_resumenes[BucketActual] /= None
    /\ \E k \in {BucketActual} :
       \E r \in {marcar_outliers(VideosDe(k), bucket_resumenes[k],
                                 umbrales_outliers)},
          pos \in {[i \in Range(buckets[k].videos) |->
                      CHOOSE j \in DOMAIN buckets[k].videos :
                          buckets[k].videos[j] = i]} :
          /\ videos' = [i \in DOMAIN videos |->
                           IF i \in DOMAIN pos THEN r[1][pos[i]]
                           ELSE videos[i]]
          /\ bucket_resumenes' = [bucket_resumenes EXCEPT ![k] = r[2]]
          /\ historial' = Append(historial,
                                 [bucket |-> k, umbrales |-> umbrales_outliers,
                                  videos |-> VideosDe(k),
                                  bucket_resumen |-> bucket_resumenes[k]])
          /\ pc' = IF k = Len(buckets) THEN "fin" ELSE "agrupado"
    /\ UNCHANGED <<buckets, args, resultado, excepcion,
                   heuristicas_default, disco, papelera, rutas, info>>

NextPipeline ==
    \/ CalcularMetricasDerivadas
    \/ AgruparEnBuckets
    \/ ResumirBucketActual
    \/ MarcarBucketActual

SpecPipeline == InitPipeline /\ [][NextPipeline]_vars

\* A video that no marcar_outliers call has touched.
SinMarcar(video) ==
    /\ video.ratio_vs_promedio_bucket = None
    /\ Flags(video) \cap {"BUCKET_PEQUENO", "OUTLIER_SUAVE", "OUTLIER_FUERTE"}
           = {}

RECURSIVE SumaTotales(_)
SumaTotales(resumenes) ==
    IF resumenes = <<>> THEN 0
    ELSE Head(resumenes).total_videos + SumaTotales(Tail(resumenes))

\* C30: in one run of ejecutar_pipeline the buckets partition the videos,
\* each bucket listing its videos in input order, so the total_videos of
\* the summaries add up to the number of videos; the summary of a bucket is
\* computed from the bucket's whole list before any of its videos is
\* marked; marcar_outliers is called once per summary; and, the file paths
\* being distinct, the videos_outliers of every summary has no repeated
\* identifier, at most total_videos entries, and only videos of its bucket.
C30_UnaCorrida ==
    pc \in {"agrupado", "fin"} =>
        /\ \A i \in DOMAIN videos :
              Cardinality({<<k, j>> \in (DOMAIN buckets) \X (DOMAIN videos) :
                              j \in DOMAIN buckets[k].videos
                                  /\ buckets[k].videos[j] = i}) = 1
        /\ \A k \in DOMAIN buckets :
              \A j \in DOMAIN buckets[k].videos :
                  j > 1 => buckets[k].videos[j - 1] < buckets[k].videos[j]
        /\ \A n \in DOMAIN historial :
              /\ historial[n].bucket = n
              /\ \A i \in DOMAIN historial[n].videos :
                    SinMarcar(historial[n].videos[i])
              /\ historial[n].bucket_resumen
                     = calcular_metricas_bucket(buckets[n].bucket_id,
                                                historial[n].videos)
        /\ \A k \in DOMAIN buckets :
              /\ (k <= Len(historial)) <=> (k < BucketActual)
              /\ (k > BucketActual) => bucket_resumenes[k] = None
              /\ (k > Len(historial)) =>
                    \A i \in DOMAIN VideosDe(k) : SinMarcar(VideosDe(k)[i])
              /\ bucket_resumenes[k] /= None =>
                    LET resumen == bucket_resumenes[k]
                        ids == resumen.videos_outliers
                    IN  /\ resumen.total_videos = Len(buckets[k].videos)
                        /\ \A a, b \in DOMAIN ids : a /= b => ids[a] /= ids[b]
                        /\ Len(ids) <= resumen.total_videos
                        /\ \A a \in DOMAIN ids :
                              \E j \in DOMAIN buckets[k].videos :
                                  ids[a] = str(videos[buckets[k].videos[j]]
                                                   .archivo.ruta)
        /\ pc = "fin" =>
              /\ Len(historial) = Len(buckets)
              /\ SumaTotales(bucket_resumenes) = Len(videos)

\* A finished run over two buckets: the second video, 9 MB at 480 lines
\* next to 2 MB and 3 MB, is the one outlier of the first bucket; the
\* second bucket holds the third video alone.
C30_Witness ==
    /\ pc = "fin"
    /\ Len(videos) = 4
    /\ Len(buckets) = 2
    /\ Len(historial) = 2
    /\ buckets[1].videos = <<1, 2, 4>>
    /\ buckets[2].videos = <<3>>
    /\ Len(bucket_resumenes[1].videos_outliers) = 1
    /\ bucket_resumenes[1].videos_outliers[1] = str(videos[2].archivo.ruta)
    /\ bucket_resumenes[1].total_videos = 3
    /\ bucket_resumenes[2].total_videos = 1

====
